---- MODULE Spec2Model ----
(***************************************************************************)
(* A state-machine model of the ReveAI client (src/src/index.ts) and of    *)
(* its helpers (src/unnamed/part_003, lines 504-680, the utils/helpers     *)
(* module).  One generateImage call is modelled: validation, the optional  *)
(* batch-level prompt enhancement, the fan-out into batchSize concurrent   *)
(* generateSingleImage pipelines (project id, optional enhancement,        *)
(* submission, polling, asset fetch, delay), and the reduction of their    *)
(* results by Promise.all.                                                 *)
(*                                                                         *)
(* Conventions.  An optional JavaScript value is a sequence of length at   *)
(* most one: None is undefined, Some(v) is v.  A string is a sequence of   *)
(* tokens (words or fixed phrases); "" is the empty sequence, and          *)
(* String.prototype.includes is containment of a contiguous run of tokens. *)
(* A network call (request and response) is one atomic step taken when its *)
(* response arrives; the service's answer is a nondeterministic choice.    *)
(***************************************************************************)
EXTENDS Integers, Sequences, FiniteSets, TLC

VARIABLES
    isTestEnv,           \* IS_TEST_ENV: process.env.NODE_ENV === 'test'
    maxPollingAttempts,  \* this.options.maxPollingAttempts
    projectId,           \* this.options.projectId (None: auto-discovery)
    token,               \* this.token
    options,             \* the GenerateImageOptions of the call
    gen,                 \* the generateImage call: its position and outcome
    jobs,                \* the generateSingleImage pipelines, by dispatch index
    settled,             \* dispatch indices in the order the pipelines settled
    net,                 \* what the transport has been asked so far
    vIn,                 \* validateImageOptions: the arguments under test
    vOut                 \* validateImageOptions: what the call did

vars == <<isTestEnv, maxPollingAttempts, projectId, token, options, gen, jobs,
          settled, net, vIn, vOut>>

(***************************************************************************)
(* Bounds of the model                                                     *)
(***************************************************************************)
MaxBatch == 2
MaxAttempts == 2
MaxBatchAttempts == 1
MaxSnapshots == 3

(***************************************************************************)
(* Program constants                                                       *)
(***************************************************************************)
MinDimension == 384
MaxDimension == 1024
DimensionStep == 8
MinBatchSize == 1
MaxBatchSize == 8
DefaultDimension == 1024
DefaultBatchSize == 1
SeedJitterRange == 1000
RandomSeedRange == 10000000
Unauthorized == 401
Forbidden == 403
NotFound == 404
ApiErrorFloor == 400

(***************************************************************************)
(* Optional values and strings                                             *)
(***************************************************************************)
None == <<>>
Some(v) == <<v>>
IsSome(o) == Len(o) > 0
Val(o) == o[1]

\* String.prototype.includes on token sequences
Includes(hay, needle) ==
    \E k \in 0..(Len(hay) - Len(needle)) :
        SubSeq(hay, k + 1, k + Len(needle)) = needle

\* JavaScript truthiness of an optional string: undefined and "" are falsy
TruthyStr(o) == IsSome(o) /\ Val(o) /= <<>>

\* JavaScript truthiness of an optional number: undefined and 0 are falsy
TruthyNum(o) == IsSome(o) /\ Val(o) /= 0

\* the decimal rendering of a small natural number inside a template string
NumStr(n) ==
    IF n \in 0..9
    THEN <<"0", "1", "2", "3", "4", "5", "6", "7", "8", "9">>[n + 1]
    ELSE "many"

(***************************************************************************)
(* Errors                                                                  *)
(***************************************************************************)
\* new ReveAIError(message, type, statusCode)
ReveAIError(message, type, statusCode) ==
    [cls |-> "ReveAIError", type |-> type, msg |-> message,
     status |-> statusCode, code |-> "", respMsg |-> None]

\* an error rejected by the transport: response?.status, code, message and
\* response?.data?.message
AxiosError(message, statusCode, code, respMsg) ==
    [cls |-> "AxiosError", type |-> "", msg |-> message,
     status |-> statusCode, code |-> code, respMsg |-> respMsg]

\* any other Error (a TypeError raised by a property access on undefined)
PlainError(message) ==
    [cls |-> "Error", type |-> "", msg |-> message,
     status |-> None, code |-> "", respMsg |-> None]

\* responseData?.message || axiosError.message
ResponseOrErrorMessage(error) ==
    IF TruthyStr(error.respMsg) THEN Val(error.respMsg) ELSE error.msg

handleAxiosError(error, operation, verbose) ==
    LET details == IF verbose THEN <<"Request details:">> ELSE <<>> IN
    IF error.cls = "ReveAIError" THEN error
    ELSE IF error.cls = "AxiosError" THEN
        IF error.status = Some(Unauthorized) \/ error.status = Some(Forbidden)
        THEN ReveAIError(<<"Authentication error:">>
                            \o ResponseOrErrorMessage(error) \o details,
                         "AUTHENTICATION_ERROR", error.status)
        ELSE IF error.code = "ECONNABORTED" \/ Includes(error.msg, <<"timeout">>)
        THEN ReveAIError(<<"Request", "timed out", "during", operation>> \o details,
                         "TIMEOUT_ERROR", None)
        ELSE IF Includes(error.msg, <<"Network Error">>)
        THEN ReveAIError(<<"Network error during", operation, ":">>
                            \o error.msg \o details,
                         "REQUEST_ERROR", None)
        ELSE IF TruthyNum(error.status) /\ Val(error.status) >= ApiErrorFloor
        THEN ReveAIError(<<"API error during", operation, ":">>
                            \o ResponseOrErrorMessage(error) \o details,
                         "API_ERROR", error.status)
        ELSE ReveAIError(<<"Request error during", operation, ":">>
                            \o error.msg \o details,
                         "REQUEST_ERROR", error.status)
    ELSE ReveAIError(<<"Error during", operation, ":">> \o error.msg,
                     "UNKNOWN_ERROR", None)

(***************************************************************************)
(* validateImageOptions                                                    *)
(***************************************************************************)
\* width && (width < 384 || width > 1024 || width % 8 !== 0)
DimensionRejected(d) ==
    TruthyNum(d) /\ (Val(d) < MinDimension \/ Val(d) > MaxDimension
                     \/ Val(d) % DimensionStep /= 0)

\* batchSize !== undefined && (batchSize < 1 || batchSize > 8)
BatchSizeRejected(b) ==
    IsSome(b) /\ (Val(b) < MinBatchSize \/ Val(b) > MaxBatchSize)

\* None when the call returns, Some(error) when it throws
validateImageOptions(width, height, batchSize) ==
    IF DimensionRejected(width)
    THEN Some(ReveAIError(<<"Width must be between 384 and 1024 and be divisible by 8">>,
                          "GENERATION_ERROR", None))
    ELSE IF DimensionRejected(height)
    THEN Some(ReveAIError(<<"Height must be between 384 and 1024 and be divisible by 8">>,
                          "GENERATION_ERROR", None))
    ELSE IF BatchSizeRejected(batchSize)
    THEN Some(ReveAIError(<<"Batch size must be between 1 and 8">>,
                          "GENERATION_ERROR", None))
    ELSE None

(***************************************************************************)
(* What the transport may answer                                           *)
(***************************************************************************)
Prompt == <<"a", "cat">>
Variant(k) == <<"variant", NumStr(k)>>

\* the first n variants of the enhancement model, in order
Variants(n) == [k \in 1..n |-> Variant(k)]

\* errors rejected by the transport once its own retries are used up
UnauthorizedError ==
    AxiosError(<<"Request failed with status code", "401">>,
               Some(Unauthorized), "ERR_BAD_REQUEST", None)

ForbiddenError ==
    AxiosError(<<"Request failed with status code", "403">>,
               Some(Forbidden), "ERR_BAD_REQUEST", Some(<<"forbidden">>))

\* a 403 whose response body carries a message of the service about a
\* session that timed out
ForbiddenStaleError ==
    AxiosError(<<"Request failed with status code", "403">>,
               Some(Forbidden), "ERR_BAD_REQUEST", Some(<<"session", "timed out">>))

NotFoundError ==
    AxiosError(<<"Request failed with status code", "404">>,
               Some(NotFound), "ERR_BAD_REQUEST", None)

TimeoutError ==
    AxiosError(<<"timeout", "of 30000ms exceeded">>, None, "ECONNABORTED", None)

NoError == PlainError(<<>>)

\* GET /api/projects: a list of count projects, or a transport error
ProjectResponses(errors, counts) ==
    { [ok |-> TRUE, error |-> NoError, count |-> n] : n \in counts }
    \cup { [ok |-> FALSE, error |-> e, count |-> 0] : e \in errors }

\* one progress snapshot of POST /api/misc/model_infer_sync: isObject is
\* FALSE for a null entry; prompts is None when outputs is missing or
\* outputs.expanded_prompts is not an array
Snapshot(isObject, status, prompts) ==
    [isObject |-> isObject, status |-> status, prompts |-> prompts]

Running == Snapshot(TRUE, "running", None)
Success(list) == Snapshot(TRUE, "success", Some(list))

\* POST /api/misc/model_infer_sync: a transport error, a body that is no
\* array, or an array of snapshots
EnhanceResponses(errors, lists) ==
    { [ok |-> FALSE, error |-> e, isArray |-> FALSE, list |-> <<>>] : e \in errors }
    \cup { [ok |-> TRUE, error |-> NoError, isArray |-> FALSE, list |-> <<>>] }
    \cup { [ok |-> TRUE, error |-> NoError, isArray |-> TRUE, list |-> l] : l \in lists }

\* the bodies of an answer to the submission, as <<kind, create.node.id,
\* generation_id, JSON.stringify(data)>>: no data (undefined), the empty
\* string that the transport gives for an empty body, an object with or
\* without the two ids, and an object without an id that holds text
NoBody == <<"undefined", None, None, <<>>>>

EmptyBody == <<"falsy", None, None, <<"\"\"">>>>

IdBody(nested, flat) ==
    <<"object", nested, flat,
      <<"{">> \o (IF IsSome(nested) THEN <<"create.node.id:", Val(nested)>> ELSE <<>>)
             \o (IF IsSome(flat) THEN <<"generation_id:", Val(flat)>> ELSE <<>>)
             \o <<"}">> >>

TextBody(text) == <<"object", None, None, <<"{">> \o text \o <<"}">> >>

\* POST /api/project/{id}/generation: a transport error or a body; hasData
\* says that data is neither undefined nor null, truthy that !data is false
SubmitResponses(errors, bodies) ==
    { [ok |-> FALSE, error |-> e, hasData |-> FALSE, truthy |-> FALSE,
       nested |-> None, flat |-> None, text |-> <<>>] : e \in errors }
    \cup { [ok |-> TRUE, error |-> NoError, hasData |-> b[1] /= "undefined",
            truthy |-> b[1] = "object", nested |-> b[2], flat |-> b[3],
            text |-> b[4]] : b \in bodies }

\* GET /api/project/{id}/node: a transport error, a body without a list, a
\* list without the job, or a list with the job's entry, whose data may
\* carry an output, an error and the echoed seed
StatusResponses(errors, entries) ==
    { [ok |-> FALSE, error |-> e, hasList |-> FALSE, found |-> FALSE,
       output |-> None, jobError |-> None, seed |-> None] : e \in errors }
    \cup { [ok |-> TRUE, error |-> NoError, hasList |-> l, found |-> FALSE,
            output |-> None, jobError |-> None, seed |-> None] : l \in BOOLEAN }
    \cup { [ok |-> TRUE, error |-> NoError, hasList |-> TRUE, found |-> TRUE,
            output |-> n[1], jobError |-> n[2], seed |-> n[3]] : n \in entries }

\* GET /api/project/{id}/image/{imageId}/url: a transport error, or the
\* bytes with the declared content type (if any)
ImageResponses(errors, images, contentTypes) ==
    { [ok |-> FALSE, error |-> e, data |-> <<>>, contentType |-> None] : e \in errors }
    \cup { [ok |-> TRUE, error |-> NoError, data |-> d, contentType |-> c] :
             d \in images, c \in contentTypes }

\* the answers explored for a single-image request
SingleWorld ==
    LET errors == {UnauthorizedError, ForbiddenError, TimeoutError} IN
    [projects |-> ProjectResponses(errors \cup {NotFoundError}, {0, 1}),
     enhance |-> [n \in 1..MaxBatch |->
        EnhanceResponses(errors,
            { <<>>, <<Snapshot(FALSE, "", None)>>, <<Running>>,
              <<Snapshot(TRUE, "success", None)>>,
              <<Success(<<>>)>>, <<Success(Variants(n))>>, <<Success(<<<<>>>>)>>,
              <<Success(<<Prompt>>)>>,
              <<Success(Variants(n)), Running>>, <<Running, Success(Variants(n))>> })],
     submit |-> SubmitResponses(errors,
        { NoBody, EmptyBody, IdBody(None, None),
          TextBody(<<"error:", "Generation failed">>),
          TextBody(<<"message:", "request", "timed out">>),
          IdBody(Some("node-id"), None), IdBody(None, Some("generation-id")),
          IdBody(Some("node-id"), Some("generation-id")) }),
     status |-> [i \in 1..MaxBatch |->
        StatusResponses(errors \cup {ForbiddenStaleError},
            { <<None, None, None>>, <<None, Some(<<"boom">>), None>>,
              <<None, Some(<<"Generation failed">>), None>>, <<None, Some(<<>>), None>>,
              <<Some("image-id"), None, None>>, <<Some("image-id"), None, Some(0)>>,
              <<Some("image-id"), None, Some(7)>>,
              <<Some("image-id"), Some(<<"boom">>), Some(7)>> })],
     image |-> [i \in 1..MaxBatch |->
        ImageResponses(errors, { <<77>>, <<77, 97, 110>> }, {None, Some("image/png")})],
     random |-> {0, 1},
     histories |-> TRUE,
     echoes |-> FALSE,
     traces |-> FALSE]

\* the answers explored for a batch: the service keeps the jobs apart by
\* their image and their echoed seed, the transport fails on the enhancement
\* and on the submission only, and the pipelines do not count the pending
\* answers and the asset fetches
BatchWorld ==
    [projects |-> ProjectResponses({NotFoundError}, {1}),
     enhance |-> [n \in 1..MaxBatch |->
        EnhanceResponses({TimeoutError},
            { <<Success(<<>>)>>, <<Success(Variants(n))>>,
              <<Success(Variants(n - 1))>>,
              <<Success(<<Prompt>> \o Variants(n - 1))>> })],
     submit |-> SubmitResponses({TimeoutError},
        { NoBody, IdBody(Some("node-id"), None) }),
     status |-> [i \in 1..MaxBatch |->
        StatusResponses({},
            { <<None, None, None>>, <<None, Some(<<"boom">>), None>>,
              <<Some("image-id"), None, Some(6 + i)>> })],
     image |-> [i \in 1..MaxBatch |->
        ImageResponses({}, { <<76 + i>> }, {Some("image/png")})],
     random |-> {0},
     histories |-> FALSE,
     echoes |-> FALSE,
     traces |-> FALSE]

\* the answers explored for requests that differ in their seed: every call
\* but the submission succeeds, and both ends of every random draw are tried
SeedWorld ==
    [projects |-> ProjectResponses({}, {1}),
     enhance |-> [n \in 1..MaxBatch |-> EnhanceResponses({}, { <<Success(Variants(n))>> })],
     submit |-> SubmitResponses({TimeoutError}, { IdBody(Some("node-id"), None) }),
     status |-> [i \in 1..MaxBatch |->
        StatusResponses({}, { <<None, None, None>>, <<Some("image-id"), None, Some(6 + i)>> })],
     image |-> [i \in 1..MaxBatch |->
        ImageResponses({}, { <<76 + i>> }, {Some("image/png")})],
     random |-> {0, 1},
     histories |-> FALSE,
     echoes |-> FALSE,
     traces |-> FALSE]

\* the answers explored for a listing that lags behind the submission: a
\* status query shows the job with an output or with an error, or does not
\* show it at all
LagWorld ==
    [projects |-> ProjectResponses({}, {1}),
     enhance |-> [n \in 1..MaxBatch |-> EnhanceResponses({}, { <<Success(Variants(n))>> })],
     submit |-> SubmitResponses({}, { IdBody(Some("node-id"), None) }),
     status |-> [i \in 1..MaxBatch |->
        StatusResponses({}, { <<None, Some(<<"boom">>), None>>,
                              <<Some("image-id"), None, Some(0)>>,
                              <<Some("image-id"), None, Some(7)>> })],
     image |-> [i \in 1..MaxBatch |->
        ImageResponses({TimeoutError}, { <<77>> }, {Some("image/png")})],
     random |-> {0},
     histories |-> TRUE,
     echoes |-> TRUE,
     traces |-> FALSE]

\* the answers explored for the enhancement of a single image: the transport
\* fails, or the endpoint answers with one or several progress snapshots,
\* with more, fewer or other variants than asked for; every later call
\* succeeds
InlineWorld ==
    [projects |-> ProjectResponses({NotFoundError}, {1}),
     enhance |-> [n \in 1..MaxBatch |->
        EnhanceResponses({TimeoutError},
            { <<>>, <<Running>>, <<Snapshot(FALSE, "", None)>>,
              <<Snapshot(TRUE, "success", None)>>,
              <<Success(<<>>)>>, <<Success(<<Prompt>>)>>,
              <<Success(Variants(2))>>,
              <<Success(Variants(2)), Running>>,
              <<Running, Success(Variants(2))>>,
              <<Success(<<Variant(3)>>), Success(Variants(2))>>,
              <<Success(Variants(2)), Success(<<>>)>> })],
     submit |-> SubmitResponses({}, { IdBody(Some("node-id"), None) }),
     status |-> [i \in 1..MaxBatch |->
        StatusResponses({}, { <<Some("image-id"), None, Some(7)>> })],
     image |-> [i \in 1..MaxBatch |->
        ImageResponses({}, { <<77>> }, {Some("image/png")})],
     random |-> {0},
     histories |-> TRUE,
     echoes |-> TRUE,
     traces |-> FALSE]

\* the answers explored for pipelines that run side by side without
\* enhancement: a submission times out or is accepted, a job is pending,
\* fails or completes
SiblingWorld ==
    [projects |-> ProjectResponses({}, {1}),
     enhance |-> [n \in 1..MaxBatch |-> EnhanceResponses({}, { <<Success(Variants(n))>> })],
     submit |-> SubmitResponses({TimeoutError}, { IdBody(Some("node-id"), None) }),
     status |-> [i \in 1..MaxBatch |->
        StatusResponses({},
            { <<None, None, None>>, <<None, Some(<<"boom">>), None>>,
              <<Some("image-id"), None, Some(6 + i)>> })],
     image |-> [i \in 1..MaxBatch |->
        ImageResponses({}, { <<76 + i>> }, {Some("image/png")})],
     random |-> {0},
     histories |-> FALSE,
     echoes |-> FALSE,
     traces |-> FALSE]

\* the answers explored for the order of the requests of a pipeline: a
\* submission times out or is accepted, a job is pending, fails or
\* completes (the first job of a batch with one of two image ids), an asset
\* is missing or delivered
OrderWorld ==
    [projects |-> ProjectResponses({}, {1}),
     enhance |-> [n \in 1..MaxBatch |-> EnhanceResponses({}, { <<Success(Variants(n))>> })],
     submit |-> SubmitResponses({TimeoutError}, { IdBody(Some("node-id"), None) }),
     status |-> [i \in 1..MaxBatch |->
        StatusResponses({},
            { <<None, Some(<<"boom">>), None>>,
              <<Some("image-id"), None, None>> }
            \cup IF i = 1 THEN { <<Some("image-id-2"), None, None>> } ELSE {})],
     image |-> [i \in 1..MaxBatch |->
        ImageResponses({NotFoundError}, { <<77>> }, {Some("image/png")})],
     random |-> {0},
     histories |-> FALSE,
     echoes |-> FALSE,
     traces |-> TRUE]

\* the values Math.floor(Math.random() * range) is explored with: the least
\* and, where w.random has 1, the greatest
RandomDraws(w, range) == { u * (range - 1) : u \in w.random }

(***************************************************************************)
(* Response interceptor (constructor)                                      *)
(***************************************************************************)
\* the error the caller of apiClient sees, and this.token afterwards
InterceptError(error, tok) ==
    IF error.status = Some(Unauthorized) /\ IsSome(tok)
    THEN [error |-> ReveAIError(<<"Authentication token expired">>,
                                "AUTHENTICATION_ERROR", Some(Unauthorized)),
          token |-> None]
    ELSE [error |-> error, token |-> tok]

(***************************************************************************)
(* getProjectId                                                            *)
(***************************************************************************)
\* the outcome of getProjectId on a discovery response: None when it returns
\* a project id, Some(error) when it throws; tok is this.token
ProjectIdOutcome(resp, tok) ==
    IF resp.ok
    THEN IF resp.count > 0
         THEN [error |-> None, token |-> tok]
         ELSE [error |-> Some(ReveAIError(<<"No projects found.">>, "API_ERROR", None)),
               token |-> tok]
    ELSE LET seen == InterceptError(resp.error, tok) IN
         [error |->
             Some(IF seen.error.cls = "ReveAIError" THEN seen.error
                  ELSE IF seen.error.status = Some(NotFound)
                  THEN ReveAIError(<<"Cannot auto-detect project ID.">>,
                                   "API_ERROR", Some(NotFound))
                  ELSE handleAxiosError(seen.error, "getting project ID", FALSE)),
          token |-> seen.token]

(***************************************************************************)
(* enhancePrompt                                                           *)
(***************************************************************************)
\* a variant of enhancePrompt that reads the first entry of the list
EnhanceResultFirstEntry(prompt, resp) ==
    IF ~resp.ok THEN <<prompt>>
    ELSE IF resp.isArray /\ Len(resp.list) > 0
    THEN LET firstResponse == resp.list[1] IN
         IF ~firstResponse.isObject THEN <<prompt>>
         ELSE IF firstResponse.status = "success" /\ IsSome(firstResponse.prompts)
         THEN Val(firstResponse.prompts)
         ELSE <<prompt>>
    ELSE <<prompt>>

\* lines 263-290: what enhancePrompt returns once the POST has answered
\* a variant of the enhancer that takes the latest entry that is a success,
\* wherever it stands in the list
RECURSIVE EnhanceResultLatestSuccess(_, _)
EnhanceResultLatestSuccess(prompt, resp) ==
    IF ~resp.ok \/ ~resp.isArray \/ Len(resp.list) = 0 THEN <<prompt>>
    ELSE LET lastResponse == resp.list[Len(resp.list)] IN
         IF lastResponse.isObject /\ lastResponse.status = "success"
            /\ IsSome(lastResponse.prompts)
         THEN Val(lastResponse.prompts)
         ELSE EnhanceResultLatestSuccess(prompt,
                [resp EXCEPT !.list = SubSeq(resp.list, 1, Len(resp.list) - 1)])

EnhanceResult(prompt, resp) ==
    IF ~resp.ok THEN <<prompt>>
    ELSE IF resp.isArray /\ Len(resp.list) > 0
    THEN LET lastResponse == resp.list[Len(resp.list)] IN
         IF ~lastResponse.isObject THEN <<prompt>>
         ELSE IF lastResponse.status = "success" /\ IsSome(lastResponse.prompts)
         THEN Val(lastResponse.prompts)
         ELSE <<prompt>>
    ELSE <<prompt>>

\* lines 391-401: the generation id read from the body
ExtractGenerationId(resp) ==
    IF IsSome(resp.nested) THEN resp.nested
    ELSE IF IsSome(resp.flat) THEN resp.flat
    ELSE None

(***************************************************************************)
(* Buffer.from(data).toString('base64')                                    *)
(***************************************************************************)
Base64Alphabet ==
    <<"A","B","C","D","E","F","G","H","I","J","K","L","M","N","O","P",
      "Q","R","S","T","U","V","W","X","Y","Z","a","b","c","d","e","f",
      "g","h","i","j","k","l","m","n","o","p","q","r","s","t","u","v",
      "w","x","y","z","0","1","2","3","4","5","6","7","8","9","+","/">>

Base64Char(sextet) == Base64Alphabet[sextet + 1]

RECURSIVE Base64(_)
Base64(bytes) ==
    IF Len(bytes) = 0 THEN <<>>
    ELSE IF Len(bytes) = 1
    THEN <<Base64Char(bytes[1] \div 4), Base64Char((bytes[1] % 4) * 16), "=", "=">>
    ELSE IF Len(bytes) = 2
    THEN <<Base64Char(bytes[1] \div 4),
           Base64Char((bytes[1] % 4) * 16 + bytes[2] \div 16),
           Base64Char((bytes[2] % 16) * 4), "=">>
    ELSE <<Base64Char(bytes[1] \div 4),
           Base64Char((bytes[1] % 4) * 16 + bytes[2] \div 16),
           Base64Char((bytes[2] % 16) * 4 + bytes[3] \div 64),
           Base64Char(bytes[3] % 64)>>
         \o Base64(SubSeq(bytes, 4, Len(bytes)))

\* a variant of the data URL that ignores the declared content type
DataUrlFixedType(resp) == <<"data:", "image/webp", ";base64,">> \o Base64(resp.data)

\* lines 555-557: `data:${mimeType};base64,${base64Image}`
DataUrl(resp) ==
    LET mimeType == IF IsSome(resp.contentType) /\ Val(resp.contentType) /= ""
                    THEN Val(resp.contentType)
                    ELSE "image/webp" IN
    <<"data:", mimeType, ";base64,">> \o Base64(resp.data)

(***************************************************************************)
(* Requests                                                                *)
(***************************************************************************)
Verbose == FALSE

\* width and height of the requests explored
Dimensions ==
    { <<None, None>>, <<Some(512), Some(768)>>, <<Some(0), None>>,
      <<Some(100), None>>, <<None, Some(1025)>> }

\* the requests explored: every combination of the given fields
Requests(dimensions, batchSizes, enhanceFlags) ==
    { [prompt |-> Prompt, negativePrompt |-> None, width |-> d[1], height |-> d[2],
       batchSize |-> b, seed |-> None, enhancePrompt |-> e] :
        d \in dimensions, b \in batchSizes, e \in enhanceFlags }

\* single-image requests, and requests a batch size rules out
SingleRequests ==
    Requests(Dimensions,
             {None, Some(0), Some(DefaultBatchSize), Some(MaxBatchSize + 1)},
             {None, Some(TRUE), Some(FALSE)})

\* requests for a batch of 1 to MaxBatch images
BatchRequests ==
    Requests({<<None, None>>}, { Some(b) : b \in 1..MaxBatch },
             {Some(TRUE), Some(FALSE)})

\* the base seeds explored: omitted, the sentinel, a negative seed that a
\* jitter can turn into the sentinel, zero and a positive seed
BaseSeeds == {None, Some(-1), Some(-1000), Some(0), Some(42)}

\* requests that differ in their seed, for 1 to MaxBatch images without
\* enhancement
SeedRequests ==
    { [prompt |-> Prompt, negativePrompt |-> None, width |-> None, height |-> None,
       batchSize |-> Some(b), seed |-> sd, enhancePrompt |-> Some(FALSE)] :
        b \in 1..MaxBatch, sd \in BaseSeeds }

\* options.batchSize || 1
BatchSizeOf(o) == IF TruthyNum(o.batchSize) THEN Val(o.batchSize) ELSE DefaultBatchSize

\* a variant of the default that ignores the option
AlwaysEnhance(o) == TRUE

\* options.enhancePrompt ?? true
EnhanceOf(o) == IF IsSome(o.enhancePrompt) THEN Val(o.enhancePrompt) ELSE TRUE

\* options.width || 1024 (and height)
DimensionOf(d) == IF TruthyNum(d) THEN Val(d) ELSE DefaultDimension

(***************************************************************************)
(* generateImage: the catch block and the reduction of the results         *)
(***************************************************************************)
\* lines 489-502
CatchGenerateImage(error) ==
    IF isTestEnv /\ Includes(error.msg, <<"Generation failed">>)
    THEN ReveAIError(<<"Generation failed">>, "GENERATION_ERROR", None)
    ELSE IF isTestEnv /\ Includes(error.msg, <<"timed out">>)
    THEN ReveAIError(<<"Generation", "timed out">>, "POLLING_ERROR", None)
    ELSE handleAxiosError(error, "generating image", Verbose)

\* lines 470-473: results.map(r => r.enhancedPrompt).filter(p => p !== undefined)
UsedEnhancedPrompts(results) ==
    LET Defined(r) == IsSome(r.enhancedPrompt)
        kept == SelectSeq(results, Defined) IN
    [k \in 1..Len(kept) |-> Val(kept[k].enhancedPrompt)]

\* a variant of the result that reports the seed of the pipeline that
\* completed first
AssembleResultFirstSettled(results) ==
    LET used == UsedEnhancedPrompts(results)
        withEnhanced == EnhanceOf(options) /\ Len(used) > 0
        first == IF Len(settled) > 0 THEN settled[1] ELSE 1 IN
    [imageUrls |-> [k \in 1..Len(results) |-> results[k].imageUrl],
     seed |-> results[first].seed,
     prompt |-> options.prompt,
     keys |-> IF withEnhanced THEN {"enhancedPrompt", "enhancedPrompts"} ELSE {},
     enhancedPrompt |-> IF withEnhanced THEN Some(used[1]) ELSE None,
     enhancedPrompts |-> IF withEnhanced /\ Len(used) > 1 THEN Some(used) ELSE None,
     negativePrompt |-> IF TruthyStr(options.negativePrompt)
                        THEN options.negativePrompt ELSE None]

\* lines 475-488; keys are the optional properties the object literal defines
AssembleResult(results) ==
    LET used == UsedEnhancedPrompts(results)
        withEnhanced == EnhanceOf(options) /\ Len(used) > 0 IN
    [imageUrls |-> [k \in 1..Len(results) |-> results[k].imageUrl],
     seed |-> results[1].seed,
     prompt |-> options.prompt,
     keys |-> IF withEnhanced THEN {"enhancedPrompt", "enhancedPrompts"} ELSE {},
     enhancedPrompt |-> IF withEnhanced THEN Some(used[1]) ELSE None,
     enhancedPrompts |-> IF withEnhanced /\ Len(used) > 1 THEN Some(used) ELSE None,
     negativePrompt |-> IF TruthyStr(options.negativePrompt)
                        THEN options.negativePrompt ELSE None]

\* a variant of the reduction that collects the results as they complete
CompletionOrderResults(js) ==
    LET last == CHOOSE k \in 1..Len(js) : \A m \in 1..Len(settled) : settled[m] /= k
        order == Append(settled, last) IN
    [k \in 1..Len(js) |-> Val(js[order[k]].outcome)]

\* Promise.all(generationPromises): results in dispatch order
PromiseAllResults(js) == [k \in 1..Len(js) |-> Val(js[k].outcome)]

\* a variant of the reduction in which every failure rejects anew
GenAfterEveryFailure(js, job) ==
    IF job.pc = "failed" /\ gen.pc \in {"running", "rejected"}
    THEN [gen EXCEPT !.pc = "rejected",
                     !.error = Some(CatchGenerateImage(Val(job.error)))]
    ELSE IF gen.pc = "running" /\ \A k \in 1..Len(js) : js[k].pc = "done"
    THEN [gen EXCEPT !.pc = "resolved",
                     !.result = Some(AssembleResult(PromiseAllResults(js)))]
    ELSE gen

\* a variant of the reduction that waits for every pipeline and keeps the
\* images of those that succeeded
GenAfterAllSettled(js, job) ==
    LET IsDone(j) == j.pc = "done"
        done == SelectSeq(js, IsDone) IN
    IF gen.pc /= "running" THEN gen
    ELSE IF \E k \in 1..Len(js) : js[k].pc \notin {"done", "failed"} THEN gen
    ELSE IF Len(done) = 0
    THEN [gen EXCEPT !.pc = "rejected",
                     !.error = Some(CatchGenerateImage(Val(job.error)))]
    ELSE [gen EXCEPT !.pc = "resolved",
                     !.result = Some(AssembleResult(PromiseAllResults(done)))]

\* what generateImage does when pipeline i settles as job (lines 468-502)
GenAfter(js, job) ==
    IF gen.pc /= "running" THEN gen
    ELSE IF job.pc = "failed"
    THEN [gen EXCEPT !.pc = "rejected",
                     !.error = Some(CatchGenerateImage(Val(job.error)))]
    ELSE IF \A k \in 1..Len(js) : js[k].pc = "done"
    THEN [gen EXCEPT !.pc = "resolved",
                     !.result = Some(AssembleResult(PromiseAllResults(js)))]
    ELSE gen

\* a variant of the step of a pipeline in which a failure aborts the
\* pipelines that are still running
CommitCancelling(i, job) ==
    LET js == [k \in 1..Len(jobs) |->
                  IF k = i THEN job
                  ELSE IF job.pc = "failed" /\ jobs[k].pc \notin {"done", "failed"}
                  THEN [jobs[k] EXCEPT !.pc = "failed", !.error = job.error]
                  ELSE jobs[k]] IN
    /\ jobs' = js
    /\ settled' = IF job.pc \in {"done", "failed"} THEN Append(settled, i) ELSE settled
    /\ gen' = GenAfter(js, job)

\* pipeline i moves to job; when it settles, generateImage may settle too
Commit(i, job) ==
    LET js == [jobs EXCEPT ![i] = job] IN
    /\ jobs' = js
    /\ settled' = IF job.pc \in {"done", "failed"} THEN Append(settled, i) ELSE settled
    /\ gen' = GenAfter(js, job)

(***************************************************************************)
(* generateSingleImage and pollGenerationStatus: one pipeline              *)
(***************************************************************************)
\* a pipeline as generateImage starts it: it awaits getProjectId first
NewJob(enhancedArg, seedArg) ==
    [pc |-> "project", enhancedArg |-> enhancedArg, seedArg |-> seedArg,
     finalPrompt |-> options.prompt, enhanceCalls |-> <<>>, enhanceFailed |-> FALSE,
     payload |-> None, handle |-> None,
     attempts |-> 0, queries |-> 0, pendings |-> 0, fetches |-> 0, delays |-> 0,
     errorSeen |-> None, authSeen |-> None, timeoutSeen |-> None, body |-> None,
     echoed |-> None, enhanced |-> None,
     submissions |-> 0, listed |-> None, requested |-> None,
     asset |-> None, imageId |-> None, seed |-> -1, outcome |-> None,
     error |-> None]

\* the pipeline throws error
Throw(job, error) == [job EXCEPT !.pc = "failed", !.error = Some(error)]

\* the pipeline returns outcome
Return(job, outcome) == [job EXCEPT !.pc = "done", !.outcome = Some(outcome)]

\* lines 452-466: the enhanced prompt handed to pipeline index (from 1)
EnhancedPromptFor(index, enhancedPrompts) ==
    IF EnhanceOf(options) /\ Len(enhancedPrompts) > 0
    THEN Some(enhancedPrompts[((index - 1) % Len(enhancedPrompts)) + 1])
    ELSE None

\* line 462: the seed handed to a pipeline
SeedFor(jitter) ==
    IF options.seed = None THEN -1 ELSE Val(options.seed) + jitter

\* the jitters drawn for the pipelines of a batch
JitterDraws(w, batchSize) ==
    IF options.seed = None THEN { [k \in 1..batchSize |-> 0] }
    ELSE [1..batchSize -> RandomDraws(w, SeedJitterRange)]

\* lines 452-466: generateImage starts every pipeline, then awaits them all
Dispatch(w, g, enhancedPrompts) ==
    \E jitter \in JitterDraws(w, BatchSizeOf(options)) :
        /\ jobs' = [k \in 1..BatchSizeOf(options) |->
                      NewJob(EnhancedPromptFor(k, enhancedPrompts), SeedFor(jitter[k]))]
        /\ gen' = [g EXCEPT !.pc = "running", !.enhancedPrompts = enhancedPrompts]

\* lines 310-347: after getProjectId, validate and choose the prompt
ChoosePrompt(job) ==
    LET invalid == validateImageOptions(options.width, options.height, Some(1)) IN
    IF IsSome(invalid) THEN Throw(job, Val(invalid))
    ELSE IF TruthyStr(job.enhancedArg) /\ EnhanceOf(options)
    THEN [job EXCEPT !.finalPrompt = Val(job.enhancedArg), !.pc = "submit"]
    ELSE IF EnhanceOf(options)
    THEN [job EXCEPT !.pc = IF IsSome(projectId) THEN "enhance" ELSE "enhanceProject"]
    ELSE [job EXCEPT !.pc = "submit"]

\* a variant of the choice that takes the last of the returned variants
UseLastEnhanced(job, enhancedPrompts) ==
    [job EXCEPT !.pc = "submit",
                !.finalPrompt = IF Len(enhancedPrompts) > 0
                                THEN enhancedPrompts[Len(enhancedPrompts)]
                                ELSE job.finalPrompt]

\* lines 339-347: the pipeline's own enhancePrompt(prompt, 1) has returned
UseEnhanced(job, enhancedPrompts) ==
    [job EXCEPT !.pc = "submit",
                !.finalPrompt = IF Len(enhancedPrompts) > 0 THEN enhancedPrompts[1]
                                ELSE job.finalPrompt]

\* the decimal digits of a natural number, as a template string renders it
RECURSIVE Decimal(_)
Decimal(n) ==
    IF n < 10 THEN <<NumStr(n)>> ELSE Decimal(n \div 10) \o <<NumStr(n % 10)>>

\* `${width}:${height}`
AspectRatio(width, height) == Decimal(width) \o <<":">> \o Decimal(height)

\* a variant of the submission that states the aspect ratio as height:width
GenerationPayloadSwappedRatio(job, random) ==
    [caption |-> job.finalPrompt,
     negative_caption |-> IF TruthyStr(options.negativePrompt)
                          THEN Val(options.negativePrompt) ELSE <<>>,
     seed |-> IF job.seedArg = -1 THEN random ELSE job.seedArg,
     width |-> DimensionOf(options.width),
     height |-> DimensionOf(options.height),
     aspectRatio |-> AspectRatio(DimensionOf(options.height), DimensionOf(options.width)),
     instruction |-> options.prompt,
     optimizeEnabled |-> EnhanceOf(options),
     unexpandedPrompt |-> options.prompt]

\* a variant of the submission that sends the per-job seed as it is
GenerationPayloadRawSeed(job, random) ==
    [caption |-> job.finalPrompt,
     negative_caption |-> IF TruthyStr(options.negativePrompt)
                          THEN Val(options.negativePrompt) ELSE <<>>,
     seed |-> job.seedArg,
     width |-> DimensionOf(options.width),
     height |-> DimensionOf(options.height),
     aspectRatio |-> AspectRatio(DimensionOf(options.width), DimensionOf(options.height)),
     instruction |-> options.prompt,
     optimizeEnabled |-> EnhanceOf(options),
     unexpandedPrompt |-> options.prompt]

\* lines 352-375: the body of the submission
GenerationPayload(job, random) ==
    [caption |-> job.finalPrompt,
     negative_caption |-> IF TruthyStr(options.negativePrompt)
                          THEN Val(options.negativePrompt) ELSE <<>>,
     seed |-> IF job.seedArg = -1 THEN random ELSE job.seedArg,
     width |-> DimensionOf(options.width),
     height |-> DimensionOf(options.height),
     aspectRatio |-> AspectRatio(DimensionOf(options.width), DimensionOf(options.height)),
     instruction |-> options.prompt,
     optimizeEnabled |-> EnhanceOf(options),
     unexpandedPrompt |-> options.prompt]

\* the random seeds a submission may draw
SeedDraws(w, job) ==
    IF job.seedArg = -1 THEN RandomDraws(w, RandomSeedRange) ELSE {0}

\* lines 515-517 and 608-611: the loop test of pollGenerationStatus
LoopTest(job) ==
    IF job.attempts < maxPollingAttempts THEN [job EXCEPT !.pc = "poll"]
    ELSE Throw(job, ReveAIError(<<"Generation", "timed out", "after",
                                  NumStr(job.attempts), "polling attempts">>,
                                "POLLING_ERROR", None))

\* lines 383-411: the submission has answered with a body or without
AfterSubmit(job, resp) ==
    IF isTestEnv /\ ~resp.truthy
    THEN Return(job, [imageUrl |-> <<"https://example.com/test-image.jpg">>,
                      seed |-> -1, enhancedPrompt |-> None])
    ELSE IF ~resp.hasData
    THEN Throw(job, PlainError(<<"Cannot read properties of undefined">>))
    ELSE IF ExtractGenerationId(resp) = None
    THEN Throw(job, ReveAIError(<<"Failed to get generation ID from response:">>
                                    \o resp.text,
                                "UNEXPECTED_RESPONSE", None))
    ELSE LoopTest([job EXCEPT !.handle = ExtractGenerationId(resp)])

\* lines 526-599: one status listing has arrived
\* a variant of the reading of the listing that takes a job missing from
\* the list for a failed one
AfterStatusAbsentFails(job, resp) ==
    IF resp.hasList /\ resp.found /\ IsSome(resp.output)
    THEN [job EXCEPT !.pc = "fetch", !.imageId = resp.output,
                     !.seed = IF TruthyNum(resp.seed) THEN Val(resp.seed) ELSE -1]
    ELSE IF resp.hasList /\ (~resp.found \/ TruthyStr(resp.jobError))
    THEN Throw(job, ReveAIError(<<"Generation failed", ":">>,
                                "GENERATION_ERROR", None))
    ELSE [job EXCEPT !.pc = "delay"]

\* a variant of the listing branch that keeps the image id of the first
\* listing that showed an output
AfterStatusKeepsFirstId(job, resp) ==
    IF resp.hasList /\ resp.found /\ IsSome(resp.output)
    THEN [job EXCEPT !.pc = "fetch",
                     !.imageId = IF IsSome(@) THEN @ ELSE resp.output,
                     !.seed = IF TruthyNum(resp.seed) THEN Val(resp.seed) ELSE -1]
    ELSE IF resp.hasList /\ resp.found /\ TruthyStr(resp.jobError)
    THEN Throw(job, ReveAIError(<<"Generation failed", ":">> \o Val(resp.jobError),
                                "GENERATION_ERROR", None))
    ELSE [job EXCEPT !.pc = "delay"]

AfterStatus(job, resp) ==
    IF resp.hasList /\ resp.found /\ IsSome(resp.output)
    THEN [job EXCEPT !.pc = "fetch", !.imageId = resp.output,
                     !.seed = IF TruthyNum(resp.seed) THEN Val(resp.seed) ELSE -1]
    ELSE IF resp.hasList /\ resp.found /\ TruthyStr(resp.jobError)
    THEN Throw(job, ReveAIError(<<"Generation failed", ":">> \o Val(resp.jobError),
                                "GENERATION_ERROR", None))
    ELSE [job EXCEPT !.pc = "delay"]

\* lines 413-417 and 554-566: the image has arrived
AfterImage(job, resp) ==
    Return(job, [imageUrl |-> DataUrl(resp), seed |-> job.seed,
                 enhancedPrompt |->
                     IF EnhanceOf(options) /\ job.finalPrompt /= options.prompt
                     THEN Some(job.finalPrompt) ELSE None])

\* a variant of the loop in which a wait does not count as an attempt
AfterDelayNoCount(job) ==
    LoopTest([job EXCEPT !.delays = @ + 1])

\* lines 573-574 and 598-599: the delay is over
AfterDelay(job) ==
    LoopTest([job EXCEPT !.attempts = @ + 1, !.delays = @ + 1])

(***************************************************************************)
(* What the histories record about an answer                               *)
(***************************************************************************)
\* the enhancement endpoint failed: a rejected request, a body that is not a
\* non-empty array of objects, a last entry that is not a success or that
\* carries no list of variants
IsEnhanceFailure(resp) ==
    \/ ~resp.ok
    \/ ~resp.isArray
    \/ Len(resp.list) = 0
    \/ ~resp.list[Len(resp.list)].isObject
    \/ resp.list[Len(resp.list)].status /= "success"
    \/ resp.list[Len(resp.list)].prompts = None

\* the listing shows the job absent, or present with neither an output nor
\* a truthy error
IsPendingAnswer(resp) ==
    /\ resp.ok
    /\ resp.hasList
    /\ (~resp.found \/ (resp.output = None /\ ~TruthyStr(resp.jobError)))

\* the listing shows the job with an output
IsOutputAnswer(resp) == resp.ok /\ resp.hasList /\ resp.found /\ IsSome(resp.output)

\* the listing shows the job with an error that is truthy (line 577)
IsErrorAnswer(resp) == resp.ok /\ resp.hasList /\ resp.found /\ TruthyStr(resp.jobError)

\* the transport gave up waiting for the answer
IsTransportTimeout(error) == error.cls = "AxiosError" /\ error.code = "ECONNABORTED"

\* the answer carried HTTP status 401 or 403
IsAuthFailure(error) ==
    error.cls = "AxiosError" /\ error.status \in {Some(Unauthorized), Some(Forbidden)}

\* the histories of a pipeline after the answer resp to one of its calls:
\* the last call answered with 401 or 403 and its status, and the submission
\* or status query that timed out
NoteAnswer(w, job, call, resp) ==
    IF w.histories /\ ~resp.ok
    THEN [job EXCEPT
            !.authSeen = IF IsAuthFailure(resp.error)
                         THEN Some([call |-> call, status |-> Val(resp.error.status)])
                         ELSE @,
            !.timeoutSeen = IF call \in {"submit", "status"}
                               /\ IsTransportTimeout(resp.error)
                            THEN Some(call) ELSE @]
    ELSE job

(***************************************************************************)
(* Initial state: a client has been constructed, a request is at hand      *)
(***************************************************************************)
InitClient(attempts) ==
    /\ isTestEnv \in BOOLEAN
    /\ maxPollingAttempts \in attempts
    /\ projectId \in {None, Some("project")}
    /\ token = Some("token")

InitCall ==
    /\ gen = [pc |-> "idle", enhancedPrompts |-> <<>>, enhanceCalls |-> <<>>,
              enhanceFailed |-> FALSE, result |-> None, error |-> None]
    /\ jobs = <<>>
    /\ settled = <<>>
    /\ net = [projects |-> 0]

Init ==
    /\ InitClient(0..MaxAttempts)
    /\ options \in SingleRequests
    /\ InitCall
    /\ vIn = None
    /\ vOut = None

InitBatch ==
    /\ InitClient(0..MaxBatchAttempts)
    /\ options \in BatchRequests
    /\ InitCall
    /\ vIn = None
    /\ vOut = None

(***************************************************************************)
(* Actions                                                                 *)
(***************************************************************************)
\* generateImage is called: lines 425-449, and 452-466 when no batch
\* enhancement is awaited
GenerateImage(w) ==
    /\ gen.pc = "idle"
    /\ LET invalid == validateImageOptions(options.width, options.height,
                                           options.batchSize) IN
       IF IsSome(invalid)
       THEN /\ gen' = [gen EXCEPT !.pc = "rejected",
                                  !.error = Some(CatchGenerateImage(Val(invalid)))]
            /\ UNCHANGED jobs
       ELSE IF EnhanceOf(options) /\ BatchSizeOf(options) > 1
       THEN /\ gen' = [gen EXCEPT !.pc = IF IsSome(projectId) THEN "enhance"
                                         ELSE "enhanceProject"]
            /\ UNCHANGED jobs
       ELSE Dispatch(w, gen, <<>>)
    /\ UNCHANGED <<isTestEnv, maxPollingAttempts, projectId, token, options,
                   settled, net, vIn, vOut>>

\* the batch-level enhancePrompt: GET /api/projects has answered (line 251)
BatchEnhanceProject(w) ==
    /\ gen.pc = "enhanceProject"
    /\ \E resp \in w.projects :
        LET out == ProjectIdOutcome(resp, token) IN
        /\ token' = out.token
        /\ net' = [net EXCEPT !.projects = @ + 1]
        /\ IF IsSome(out.error)
           THEN Dispatch(w, [gen EXCEPT !.enhanceFailed = TRUE], <<options.prompt>>)
           ELSE /\ gen' = [gen EXCEPT !.pc = "enhance"]
                /\ UNCHANGED jobs
    /\ UNCHANGED <<isTestEnv, maxPollingAttempts, projectId, options, settled,
                   vIn, vOut>>

\* the batch-level enhancePrompt: POST /api/misc/model_infer_sync has
\* answered (lines 258-290), and the pipelines are started (lines 444-466)
BatchEnhance(w) ==
    /\ gen.pc = "enhance"
    /\ \E resp \in w.enhance[BatchSizeOf(options)] :
        /\ token' = IF resp.ok THEN token ELSE InterceptError(resp.error, token).token
        /\ Dispatch(w, [gen EXCEPT !.enhanceCalls = Append(@, BatchSizeOf(options)),
                                !.enhanceFailed = IsEnhanceFailure(resp)],
                    EnhanceResult(options.prompt, resp))
    /\ UNCHANGED <<isTestEnv, maxPollingAttempts, projectId, options, settled,
                   net, vIn, vOut>>

\* generateSingleImage: getProjectId has returned or thrown (line 308)
JobProjectId(w, i) ==
    /\ jobs[i].pc = "project"
    /\ IF IsSome(projectId)
       THEN /\ Commit(i, ChoosePrompt(jobs[i]))
            /\ UNCHANGED <<token, net>>
       ELSE \E resp \in w.projects :
              LET out == ProjectIdOutcome(resp, token) IN
              /\ token' = out.token
              /\ net' = [net EXCEPT !.projects = @ + 1]
              /\ Commit(i, IF IsSome(out.error)
                           THEN Throw(NoteAnswer(w, jobs[i], "project", resp),
                                      Val(out.error))
                           ELSE ChoosePrompt(jobs[i]))
    /\ UNCHANGED <<isTestEnv, maxPollingAttempts, projectId, options, vIn, vOut>>

\* the pipeline's own enhancePrompt: GET /api/projects has answered
JobEnhanceProject(w, i) ==
    /\ jobs[i].pc = "enhanceProject"
    /\ \E resp \in w.projects :
        LET out == ProjectIdOutcome(resp, token) IN
        /\ token' = out.token
        /\ net' = [net EXCEPT !.projects = @ + 1]
        /\ Commit(i, IF IsSome(out.error)
                     THEN UseEnhanced([NoteAnswer(w, jobs[i], "enhanceProject", resp)
                                          EXCEPT !.enhanceFailed = TRUE],
                                      <<options.prompt>>)
                     ELSE [jobs[i] EXCEPT !.pc = "enhance"])
    /\ UNCHANGED <<isTestEnv, maxPollingAttempts, projectId, options, vIn, vOut>>

\* the pipeline's own enhancePrompt(prompt, 1): the POST has answered
JobEnhance(w, i) ==
    /\ jobs[i].pc = "enhance"
    /\ \E resp \in w.enhance[1] :
        /\ token' = IF resp.ok THEN token ELSE InterceptError(resp.error, token).token
        /\ Commit(i, UseEnhanced([NoteAnswer(w, jobs[i], "enhance", resp)
                                    EXCEPT !.enhanceCalls = Append(@, 1),
                                           !.enhanceFailed = IsEnhanceFailure(resp),
                                           !.enhanced = IF w.echoes THEN Some(resp)
                                                        ELSE @],
                                 EnhanceResult(options.prompt, resp)))
    /\ UNCHANGED <<isTestEnv, maxPollingAttempts, projectId, options, net, vIn, vOut>>

\* POST /api/project/{id}/generation has answered (lines 349-411)
Submit(w, i) ==
    /\ jobs[i].pc = "submit"
    /\ \E resp \in w.submit, random \in SeedDraws(w, jobs[i]) :
        LET sent == [NoteAnswer(w, jobs[i], "submit", resp) EXCEPT
                        !.payload = Some(GenerationPayload(jobs[i], random)),
                        !.submissions = IF w.traces THEN @ + 1 ELSE @,
                        !.body = IF w.histories /\ resp.ok
                                 THEN Some(<<resp.hasData, resp.nested, resp.flat>>)
                                 ELSE @]
            seen == InterceptError(resp.error, token) IN
        IF resp.ok
        THEN /\ Commit(i, AfterSubmit(sent, resp))
             /\ UNCHANGED token
        ELSE /\ Commit(i, Throw(sent, seen.error))
             /\ token' = seen.token
    /\ UNCHANGED <<isTestEnv, maxPollingAttempts, projectId, options, net, vIn, vOut>>

\* lines 600-605: the catch block of the polling loop
PollCatch(error) ==
    IF error.cls = "ReveAIError" THEN error
    ELSE handleAxiosError(error, "polling generation status", Verbose)

\* a variant of the catch in which the poller waits and queries again
StatusFailureRetries(job, error) == [job EXCEPT !.pc = "delay"]

\* lines 600-605: the status query was rejected; the catch throws
AfterStatusFailure(job, error) == Throw(job, PollCatch(error))

\* GET /api/project/{id}/node has answered (lines 517-599)
PollStatus(w, i) ==
    /\ jobs[i].pc = "poll"
    /\ \E resp \in w.status[i] :
        LET asked == [NoteAnswer(w, jobs[i], "status", resp) EXCEPT
                                     !.queries = @ + 1,
                                     !.pendings = IF w.histories /\ IsPendingAnswer(resp)
                                                   THEN @ + 1 ELSE @,
                                     !.errorSeen = IF w.histories /\ IsErrorAnswer(resp)
                                                   THEN resp.jobError ELSE @,
                                     !.echoed = IF w.echoes /\ IsOutputAnswer(resp)
                                                THEN Some(resp.seed) ELSE @,
                                     !.listed = IF w.traces /\ IsOutputAnswer(resp)
                                                THEN resp.output ELSE @]
            seen == InterceptError(resp.error, token) IN
        IF resp.ok
        THEN /\ Commit(i, AfterStatus(asked, resp))
             /\ UNCHANGED token
        ELSE /\ Commit(i, AfterStatusFailure(asked, seen.error))
             /\ token' = seen.token
    /\ UNCHANGED <<isTestEnv, maxPollingAttempts, projectId, options, net, vIn, vOut>>

\* a variant of the inner catch that submits the job again
FetchFailureResubmits(job, error) == [job EXCEPT !.pc = "submit"]

\* a variant of the inner catch that lets the error end the pipeline
FetchFailureThrows(job, error) == Throw(job, PollCatch(error))

\* lines 567-576: the inner catch around the asset fetch swallows the error
AfterFetchFailure(job, error) == [job EXCEPT !.pc = "delay"]

\* GET /api/project/{id}/image/{imageId}/url has answered (lines 543-576)
FetchImage(w, i) ==
    /\ jobs[i].pc = "fetch"
    /\ \E resp \in w.image[i] :
        LET asked == [NoteAnswer(w, jobs[i], "fetch", resp) EXCEPT
                        !.fetches = IF w.histories THEN @ + 1 ELSE @,
                        !.requested = IF w.traces THEN jobs[i].imageId ELSE @,
                        !.asset = IF resp.ok
                                  THEN Some([data |-> resp.data,
                                             contentType |-> resp.contentType])
                                  ELSE @]
            seen == InterceptError(resp.error, token) IN
        IF resp.ok
        THEN /\ Commit(i, AfterImage(asked, resp))
             /\ UNCHANGED token
        ELSE /\ Commit(i, AfterFetchFailure(asked, seen.error))
             /\ token' = seen.token
    /\ UNCHANGED <<isTestEnv, maxPollingAttempts, projectId, options, net, vIn, vOut>>

\* delay(pollingInterval) has elapsed (lines 573-575 and 598-599)
Delay(w, i) ==
    /\ jobs[i].pc = "delay"
    /\ Commit(i, AfterDelay(jobs[i]))
    /\ UNCHANGED <<isTestEnv, maxPollingAttempts, projectId, token, options, net,
                   vIn, vOut>>

\* the steps of one generateImage call against the answers of w
Step(w) ==
    \/ GenerateImage(w)
    \/ BatchEnhanceProject(w)
    \/ BatchEnhance(w)
    \/ \E i \in 1..Len(jobs) : JobProjectId(w, i)
    \/ \E i \in 1..Len(jobs) : JobEnhanceProject(w, i)
    \/ \E i \in 1..Len(jobs) : JobEnhance(w, i)
    \/ \E i \in 1..Len(jobs) : Submit(w, i)
    \/ \E i \in 1..Len(jobs) : PollStatus(w, i)
    \/ \E i \in 1..Len(jobs) : FetchImage(w, i)
    \/ \E i \in 1..Len(jobs) : Delay(w, i)

(***************************************************************************)
(* Specifications                                                          *)
(***************************************************************************)
\* a single-image request: no batch-level enhancement is ever awaited
Next ==
    \/ GenerateImage(SingleWorld)
    \/ \E i \in 1..Len(jobs) : JobProjectId(SingleWorld, i)
    \/ \E i \in 1..Len(jobs) : JobEnhanceProject(SingleWorld, i)
    \/ \E i \in 1..Len(jobs) : JobEnhance(SingleWorld, i)
    \/ \E i \in 1..Len(jobs) : Submit(SingleWorld, i)
    \/ \E i \in 1..Len(jobs) : PollStatus(SingleWorld, i)
    \/ \E i \in 1..Len(jobs) : FetchImage(SingleWorld, i)
    \/ \E i \in 1..Len(jobs) : Delay(SingleWorld, i)

Spec == Init /\ [][Next]_vars

\* a batch request
NextBatch == Step(BatchWorld)

SpecBatch == InitBatch /\ [][NextBatch]_vars

\* requests that differ in their seed: a configured project and one polling
\* attempt
InitSeed ==
    /\ isTestEnv = FALSE
    /\ maxPollingAttempts = 1
    /\ projectId = Some("project")
    /\ token = Some("token")
    /\ options \in SeedRequests
    /\ InitCall
    /\ vIn = None
    /\ vOut = None

NextSeed ==
    \/ GenerateImage(SeedWorld)
    \/ \E i \in 1..Len(jobs) : JobProjectId(SeedWorld, i)
    \/ \E i \in 1..Len(jobs) : Submit(SeedWorld, i)
    \/ \E i \in 1..Len(jobs) : PollStatus(SeedWorld, i)
    \/ \E i \in 1..Len(jobs) : FetchImage(SeedWorld, i)
    \/ \E i \in 1..Len(jobs) : Delay(SeedWorld, i)

SpecSeed == InitSeed /\ [][NextSeed]_vars

\* one image without enhancement against a listing that lags
LagRequests ==
    { [prompt |-> Prompt, negativePrompt |-> None, width |-> None, height |-> None,
       batchSize |-> b, seed |-> None, enhancePrompt |-> Some(FALSE)] :
        b \in {None, Some(1)} }

InitLag ==
    /\ isTestEnv \in BOOLEAN
    /\ maxPollingAttempts \in 1..(MaxAttempts + 1)
    /\ projectId = Some("project")
    /\ token = Some("token")
    /\ options \in LagRequests
    /\ InitCall
    /\ vIn = None
    /\ vOut = None

NextLag ==
    \/ GenerateImage(LagWorld)
    \/ \E i \in 1..Len(jobs) : JobProjectId(LagWorld, i)
    \/ \E i \in 1..Len(jobs) : Submit(LagWorld, i)
    \/ \E i \in 1..Len(jobs) : PollStatus(LagWorld, i)
    \/ \E i \in 1..Len(jobs) : FetchImage(LagWorld, i)
    \/ \E i \in 1..Len(jobs) : Delay(LagWorld, i)

SpecLag == InitLag /\ [][NextLag]_vars

\* every request that is in flight is answered and every delay elapses
SpecLagFair == SpecLag /\ WF_vars(NextLag)

\* batches of 2 to MaxBatch images without enhancement
SiblingRequests ==
    Requests({<<None, None>>}, { Some(b) : b \in 2..MaxBatch }, {Some(FALSE)})

InitSiblings ==
    /\ isTestEnv \in BOOLEAN
    /\ maxPollingAttempts \in 0..(MaxBatchAttempts + 1)
    /\ projectId = Some("project")
    /\ token = Some("token")
    /\ options \in SiblingRequests
    /\ InitCall
    /\ vIn = None
    /\ vOut = None

\* one step of the pipeline at dispatch index i in a batch
PipelineStep(i) ==
    \/ JobProjectId(SiblingWorld, i)
    \/ Submit(SiblingWorld, i)
    \/ PollStatus(SiblingWorld, i)
    \/ FetchImage(SiblingWorld, i)
    \/ Delay(SiblingWorld, i)

NextSiblings ==
    \/ GenerateImage(SiblingWorld)
    \/ \E i \in 1..Len(jobs) : PipelineStep(i)

SpecSiblings == InitSiblings /\ [][NextSiblings]_vars

\* one image or a batch of up to MaxBatch images without enhancement
OrderRequests ==
    Requests({<<None, None>>}, {None} \cup { Some(b) : b \in 1..MaxBatch }, {Some(FALSE)})

InitOrder ==
    /\ isTestEnv \in BOOLEAN
    /\ maxPollingAttempts \in 0..(MaxBatchAttempts + 1)
    /\ projectId = Some("project")
    /\ token = Some("token")
    /\ options \in OrderRequests
    /\ InitCall
    /\ vIn = None
    /\ vOut = None

NextOrder ==
    \/ GenerateImage(OrderWorld)
    \/ \E i \in 1..Len(jobs) : JobProjectId(OrderWorld, i)
    \/ \E i \in 1..Len(jobs) : Submit(OrderWorld, i)
    \/ \E i \in 1..Len(jobs) : PollStatus(OrderWorld, i)
    \/ \E i \in 1..Len(jobs) : FetchImage(OrderWorld, i)
    \/ \E i \in 1..Len(jobs) : Delay(OrderWorld, i)

SpecOrder == InitOrder /\ [][NextOrder]_vars

\* one image, with the enhancement enabled, disabled or left to its default
InlineRequests ==
    Requests({ <<None, None>>, <<Some(512), Some(768)>> }, {None, Some(1)},
             {None, Some(TRUE), Some(FALSE)})

InitInline ==
    /\ InitClient({1})
    /\ options \in InlineRequests
    /\ InitCall
    /\ vIn = None
    /\ vOut = None

NextInline ==
    \/ GenerateImage(InlineWorld)
    \/ \E i \in 1..Len(jobs) : JobProjectId(InlineWorld, i)
    \/ \E i \in 1..Len(jobs) : JobEnhanceProject(InlineWorld, i)
    \/ \E i \in 1..Len(jobs) : JobEnhance(InlineWorld, i)
    \/ \E i \in 1..Len(jobs) : Submit(InlineWorld, i)
    \/ \E i \in 1..Len(jobs) : PollStatus(InlineWorld, i)
    \/ \E i \in 1..Len(jobs) : FetchImage(InlineWorld, i)
    \/ \E i \in 1..Len(jobs) : Delay(InlineWorld, i)

SpecInline == InitInline /\ [][NextInline]_vars

(***************************************************************************)
(* validateImageOptions on its own                                         *)
(***************************************************************************)
\* the widths and heights tried: the ends of the range, their neighbours,
\* multiples of 8 outside it, zero, a negative value, and undefined
ValidateDimensions ==
    {None} \cup { Some(n) : n \in {-8, 0, 8, 100, 376, 383, 384, 385, 392, 512, 513,
                                   1000, 1016, 1023, 1024, 1025, 1032} }

\* the batch sizes tried
ValidateBatchSizes ==
    {None} \cup { Some(n) : n \in (-1)..(MaxBatchSize + 1) }

InitValidate ==
    /\ isTestEnv = FALSE
    /\ maxPollingAttempts = 0
    /\ projectId = None
    /\ token = None
    /\ options = None
    /\ InitCall
    /\ vIn \in { Some([width |-> w, height |-> h, batchSize |-> b]) :
                    w \in ValidateDimensions, h \in ValidateDimensions,
                    b \in ValidateBatchSizes }
    /\ vOut = None

\* validateImageOptions(width, height, batchSize) returns or throws
Validate ==
    /\ IsSome(vIn)
    /\ vOut = None
    /\ vOut' = Some(validateImageOptions(Val(vIn).width, Val(vIn).height,
                                         Val(vIn).batchSize))
    /\ UNCHANGED <<isTestEnv, maxPollingAttempts, projectId, token, options, gen,
                   jobs, settled, net, vIn>>

NextValidate == Validate

SpecValidate == InitValidate /\ [][NextValidate]_vars

(***************************************************************************)
(* enhancePrompt on its own                                                *)
(***************************************************************************)
\* the entries a response list is made of
EnhanceSnapshots ==
    { Snapshot(FALSE, "", None), Running, Snapshot(TRUE, "success", None),
      Success(<<>>), Success(<<Prompt>>), Success(Variants(2)) }

\* the response lists of up to n entries
SnapshotLists(n) == UNION { [1..k -> EnhanceSnapshots] : k \in 0..n }

InitEnhance ==
    /\ isTestEnv = FALSE
    /\ maxPollingAttempts = 0
    /\ projectId = Some("project")
    /\ token = None
    /\ options = None
    /\ InitCall
    /\ vIn \in { Some(resp) :
                    resp \in EnhanceResponses({TimeoutError}, SnapshotLists(MaxSnapshots)) }
    /\ vOut = None

\* enhancePrompt(prompt, n) returns
EnhancePrompt ==
    /\ IsSome(vIn)
    /\ vOut = None
    /\ vOut' = Some(EnhanceResult(Prompt, Val(vIn)))
    /\ UNCHANGED <<isTestEnv, maxPollingAttempts, projectId, token, options, gen,
                   jobs, settled, net, vIn>>

NextEnhance == EnhancePrompt

SpecEnhance == InitEnhance /\ [][NextEnhance]_vars

(***************************************************************************)
(* Properties                                                              *)
(***************************************************************************)
\* a width or height the documented bounds admit: a multiple of 8 in
\* [384, 1024]; an omitted value is admitted
DimensionInBounds(d) ==
    d = None \/ (Val(d) >= MinDimension /\ Val(d) <= MaxDimension
                 /\ Val(d) % DimensionStep = 0)

\* a batch size the documented bounds admit
BatchSizeInBounds(b) ==
    b = None \/ (Val(b) >= MinBatchSize /\ Val(b) <= MaxBatchSize)

\* C10 (as stated): validateImageOptions raises a GENERATION_ERROR exactly
\* when the width or the height is not a multiple of 8 in [384, 1024], zero
\* and negative values included, or the batch size is not in [1, 8]
C10_AcceptsExactlyValid ==
    IsSome(vOut) =>
        LET args == Val(vIn)
            raised == Val(vOut) IN
        /\ IsSome(raised) <=> ~(/\ DimensionInBounds(args.width)
                                /\ DimensionInBounds(args.height)
                                /\ BatchSizeInBounds(args.batchSize))
        /\ IsSome(raised) => (/\ Val(raised).cls = "ReveAIError"
                              /\ Val(raised).type = "GENERATION_ERROR")

\* C10: a call with width 0 and otherwise valid arguments has returned
C10_ZeroWidthChecked ==
    /\ IsSome(vOut)
    /\ Val(vIn).width = Some(0)
    /\ DimensionInBounds(Val(vIn).height)
    /\ BatchSizeInBounds(Val(vIn).batchSize)

\* the request at hand violates a documented bound
OutOfBounds(o) ==
    \/ ~DimensionInBounds(o.width)
    \/ ~DimensionInBounds(o.height)
    \/ ~BatchSizeInBounds(o.batchSize)

\* no project discovery, enhancement, submission or status query has been
\* sent on behalf of the call
NoRequestSent ==
    /\ net.projects = 0
    /\ gen.enhanceCalls = <<>>
    /\ \A i \in 1..Len(jobs) :
        /\ jobs[i].enhanceCalls = <<>>
        /\ jobs[i].payload = None
        /\ jobs[i].queries = 0

\* C9 (as stated): for a request that violates a bound no network request is
\* ever sent, and the call settles only by rejecting with a ReveAIError of
\* type GENERATION_ERROR
C9_RejectsBeforeNetwork ==
    OutOfBounds(options) =>
        /\ NoRequestSent
        /\ gen.pc /= "resolved"
        /\ gen.pc = "rejected" => (/\ Val(gen.error).cls = "ReveAIError"
                                    /\ Val(gen.error).type = "GENERATION_ERROR")

\* C9: a request with width 0 has had its generation submitted
C9_ZeroWidthSubmitted ==
    /\ options.width = Some(0)
    /\ \E i \in 1..Len(jobs) : IsSome(jobs[i].payload)

\* the submission of the pipeline was accepted, and every status listing it
\* has received showed its job absent, or present with neither an output nor
\* an error field
AlwaysPending(job) == IsSome(job.handle) /\ job.pendings = job.queries

\* `Generation timed out after ${attempts} polling attempts`
ExhaustionMessage(n) ==
    <<"Generation", "timed out", "after", NumStr(n), "polling attempts">>

\* C1: under NODE_ENV=test, with the largest budget, every status listing
\* showed the job pending, the poller threw its exhaustion error naming the
\* attempt count, and the caller received 'Generation timed out' without it
C1_CountLostInTestEnv ==
    /\ isTestEnv
    /\ maxPollingAttempts = MaxAttempts
    /\ Len(jobs) = 1
    /\ AlwaysPending(jobs[1])
    /\ jobs[1].pc = "failed"
    /\ jobs[1].queries = MaxAttempts
    /\ Val(jobs[1].error).type = "POLLING_ERROR"
    /\ Val(jobs[1].error).msg = ExhaustionMessage(MaxAttempts)
    /\ gen.pc = "rejected"
    /\ Val(gen.error).type = "POLLING_ERROR"
    /\ Val(gen.error).msg = <<"Generation", "timed out">>

\* C1 (as stated): when a job that stayed pending in every status listing
\* has failed, generateImage has rejected with type POLLING_ERROR and a
\* message naming the attempt count, after exactly maxPollingAttempts queries
C1_MessageNamesCount ==
    \A i \in 1..Len(jobs) :
        (AlwaysPending(jobs[i]) /\ jobs[i].pc = "failed") =>
            /\ jobs[i].queries = maxPollingAttempts
            /\ gen.pc = "rejected"
            /\ Val(gen.error).type = "POLLING_ERROR"
            /\ Includes(Val(gen.error).msg, <<NumStr(maxPollingAttempts)>>)

\* C2 (as stated): once a status listing has shown the job's entry with
\* data.error = X, the pipeline has failed with type GENERATION_ERROR, so it
\* sends no further status query or asset fetch, and generateImage has
\* rejected with type GENERATION_ERROR and a message containing X
C2_ErrorEntryRejects ==
    \A i \in 1..Len(jobs) :
        IsSome(jobs[i].errorSeen) =>
            /\ jobs[i].pc = "failed"
            /\ Val(jobs[i].error).type = "GENERATION_ERROR"
            /\ gen.pc = "rejected"
            /\ Val(gen.error).type = "GENERATION_ERROR"
            /\ Includes(Val(gen.error).msg, Val(jobs[i].errorSeen))

\* C2: an entry carrying both an output and an error has led to an asset fetch
C2_ErrorEntryFetched ==
    \E i \in 1..Len(jobs) :
        /\ TruthyStr(jobs[i].errorSeen)
        /\ jobs[i].fetches > 0
        /\ jobs[i].pc = "done"

\* C3: a pipeline that leaves an asset fetch either returns the image or, when
\* the fetch failed, starts a delay with its attempt count unchanged; when the
\* delay is over exactly one attempt is consumed, and the pipeline queries
\* the status again unless the budget is used up, in which case it fails
\* with type POLLING_ERROR
C3_FetchFailureRetries ==
    [][\A i \in 1..Len(jobs) :
        /\ (jobs[i].pc = "fetch" /\ jobs'[i] /= jobs[i]) =>
            /\ jobs'[i].pc \in {"done", "delay"}
            /\ jobs'[i].attempts = jobs[i].attempts
            /\ jobs'[i].queries = jobs[i].queries
        /\ (jobs[i].pc = "delay" /\ jobs'[i] /= jobs[i]) =>
            /\ jobs'[i].attempts = jobs[i].attempts + 1
            /\ jobs'[i].delays = jobs[i].delays + 1
            /\ IF jobs'[i].attempts < maxPollingAttempts
               THEN jobs'[i].pc = "poll"
               ELSE /\ jobs'[i].pc = "failed"
                    /\ Val(jobs'[i].error).type = "POLLING_ERROR"]_vars

\* C3: every attempt of the budget ended in a failed asset fetch, and the
\* pipeline failed with type POLLING_ERROR
C3_EveryFetchFailed ==
    /\ maxPollingAttempts > 1
    /\ \E i \in 1..Len(jobs) :
        /\ jobs[i].pc = "failed"
        /\ Val(jobs[i].error).type = "POLLING_ERROR"
        /\ jobs[i].fetches = maxPollingAttempts
        /\ jobs[i].delays = maxPollingAttempts

\* the caption of the submission of a pipeline, once it has been sent
CaptionIs(job, caption) == IsSome(job.payload) => Val(job.payload).caption = caption

\* C4: generateImage resolves only when every one of the batchSize pipelines
\* has succeeded, and then imageUrls has batchSize entries; as soon as a
\* pipeline has failed generateImage has rejected, and it carries no result
C4_AllOrNothing ==
    /\ gen.pc = "resolved" =>
        /\ Len(jobs) = BatchSizeOf(options)
        /\ \A i \in 1..Len(jobs) : jobs[i].pc = "done"
        /\ Len(Val(gen.result).imageUrls) = BatchSizeOf(options)
    /\ (\E i \in 1..Len(jobs) : jobs[i].pc = "failed") =>
        /\ gen.pc = "rejected"
        /\ gen.result = None
    /\ gen.pc /= "resolved" => gen.result = None

\* C4: one pipeline of a batch has produced its image, another has failed,
\* and the call is rejected
C4_PartialBatchRejected ==
    /\ gen.pc = "rejected"
    /\ \E i, j \in 1..Len(jobs) :
        /\ jobs[i].pc = "done"
        /\ jobs[j].pc = "failed"

\* C5: in the result, imageUrls[i] is the image returned by the pipeline
\* dispatched at index i, in whatever order the pipelines completed
C5_DispatchOrder ==
    gen.pc = "resolved" =>
        \A i \in 1..Len(jobs) :
            Val(gen.result).imageUrls[i] = Val(jobs[i].outcome).imageUrl

\* C5: a batch has resolved whose second pipeline completed before the first,
\* with different images
C5_CompletedOutOfOrder ==
    /\ gen.pc = "resolved"
    /\ settled = <<2, 1>>
    /\ Val(jobs[1].outcome).imageUrl /= Val(jobs[2].outcome).imageUrl

\* C6 (as stated): for a batch of B > 1 images with enhancement enabled,
\* once the enhancement endpoint has answered, the only enhancement call of
\* the whole call is the one that asked for B variants, and the caption
\* submitted for the pipeline at index i (from 0) is variant
\* (i mod count) of the sequence the enhancer returned
C6_OneEnhancementCall ==
    (BatchSizeOf(options) > 1 /\ EnhanceOf(options) /\ Len(gen.enhanceCalls) > 0) =>
        /\ gen.enhanceCalls = <<BatchSizeOf(options)>>
        /\ \A i \in 1..Len(jobs) :
            /\ jobs[i].enhanceCalls = <<>>
            /\ jobs[i].pc \notin {"enhance", "enhanceProject"}
            /\ IsSome(jobs[i].payload) =>
                /\ Len(gen.enhancedPrompts) > 0
                /\ Val(jobs[i].payload).caption =
                      gen.enhancedPrompts[((i - 1) % Len(gen.enhancedPrompts)) + 1]

\* C6: the batch enhancement returned an empty list and a pipeline has made
\* an enhancement call of its own
C6_PipelineEnhancedAgain ==
    /\ gen.enhanceCalls = <<BatchSizeOf(options)>>
    /\ gen.enhancedPrompts = <<>>
    /\ \E i \in 1..Len(jobs) : jobs[i].enhanceCalls = <<1>>

\* C7: with enhancePrompt = false, for any batch size, no enhancement call is
\* made or awaited, every pipeline submits the original prompt as caption,
\* and the result defines no enhancedPrompt property
C7_NoEnhancementWhenDisabled ==
    options.enhancePrompt = Some(FALSE) =>
        /\ gen.enhanceCalls = <<>>
        /\ gen.pc \notin {"enhance", "enhanceProject"}
        /\ \A i \in 1..Len(jobs) :
            /\ jobs[i].enhanceCalls = <<>>
            /\ jobs[i].pc \notin {"enhance", "enhanceProject"}
            /\ jobs[i].finalPrompt = options.prompt
            /\ CaptionIs(jobs[i], options.prompt)
        /\ gen.pc = "resolved" =>
            /\ "enhancedPrompt" \notin Val(gen.result).keys
            /\ Val(gen.result).enhancedPrompt = None

\* C7: a batch with enhancement disabled has resolved
C7_DisabledBatchResolved ==
    /\ options.enhancePrompt = Some(FALSE)
    /\ gen.pc = "resolved"
    /\ Len(jobs) > 1
    /\ \A i \in 1..Len(jobs) : Val(jobs[i].payload).caption = options.prompt

\* C8: once the enhancement made for a pipeline has failed (the request, the
\* project id, a malformed body, a last entry that is no success), the
\* pipeline goes on with the original prompt: it submits it as caption, and
\* it fails at the submission or later, if at all
C8_EnhancerFallsBack ==
    \A i \in 1..Len(jobs) :
        jobs[i].enhanceFailed =>
            /\ jobs[i].finalPrompt = options.prompt
            /\ jobs[i].pc \notin {"project", "enhanceProject", "enhance"}
            /\ CaptionIs(jobs[i], options.prompt)
            /\ jobs[i].pc = "failed" => IsSome(jobs[i].payload)

\* C8: the enhancement endpoint was asked and failed, and the pipeline has
\* produced its image from the original prompt
C8_FallbackGenerated ==
    \E i \in 1..Len(jobs) :
        /\ jobs[i].enhanceFailed
        /\ jobs[i].enhanceCalls = <<1>>
        /\ jobs[i].pc = "done"
        /\ Val(jobs[i].payload).caption = options.prompt
        /\ gen.pc = "resolved"

\* C11: in every submission, a per-job seed that is the sentinel -1 is
\* replaced by an integer in [0, 10000000), and when the request gives a base
\* seed S the submitted seed is at least S
C11_SubmittedSeedRange ==
    \A i \in 1..Len(jobs) :
        IsSome(jobs[i].payload) =>
            /\ jobs[i].seedArg = -1 =>
                Val(jobs[i].payload).seed \in 0..(RandomSeedRange - 1)
            /\ IsSome(options.seed) =>
                Val(jobs[i].payload).seed >= Val(options.seed)

\* C11: a base seed of -1000 with jitter 999 gave the sentinel as per-job
\* seed, and the largest random seed was submitted for it
C11_JitterHitSentinel ==
    /\ options.seed = Some(-1000)
    /\ \E i \in 1..Len(jobs) :
        /\ jobs[i].seedArg = -1
        /\ IsSome(jobs[i].payload)
        /\ Val(jobs[i].payload).seed = RandomSeedRange - 1

\* the value of a character of the base64 alphabet (RFC 4648)
Base64Value(c) == CHOOSE v \in 0..63 : Base64Alphabet[v + 1] = c

\* the bytes a padded base64 text stands for (RFC 4648)
RECURSIVE Base64Decode(_)
Base64Decode(text) ==
    IF Len(text) < 4 THEN <<>>
    ELSE LET a == Base64Value(text[1])
             b == Base64Value(text[2]) IN
         IF text[3] = "=" THEN <<a * 4 + b \div 16>>
         ELSE LET c == Base64Value(text[3]) IN
              IF text[4] = "="
              THEN <<a * 4 + b \div 16, (b % 16) * 16 + c \div 4>>
              ELSE <<a * 4 + b \div 16, (b % 16) * 16 + c \div 4,
                     (c % 4) * 64 + Base64Value(text[4])>>
                   \o Base64Decode(SubSeq(text, 5, Len(text)))

\* C12: the image of a pipeline whose asset fetch answered data D with
\* content type T is "data:" + T + ";base64," followed by the padded base64
\* text of D, with T = "image/webp" when no content type is declared
C12_DataUrlOfAsset ==
    \A i \in 1..Len(jobs) :
        (jobs[i].pc = "done" /\ IsSome(jobs[i].asset)) =>
            LET url == Val(jobs[i].outcome).imageUrl
                asset == Val(jobs[i].asset)
                text == SubSeq(url, 4, Len(url)) IN
            /\ Len(url) >= 3
            /\ url[1] = "data:"
            /\ url[2] = IF IsSome(asset.contentType) THEN Val(asset.contentType)
                        ELSE "image/webp"
            /\ url[3] = ";base64,"
            /\ Len(text) = 4 * ((Len(asset.data) + 2) \div 3)
            /\ Base64Decode(text) = asset.data

\* C12: a fetch that declared a content type other than the default has
\* produced the image of a resolved call
C12_DeclaredTypeUsed ==
    /\ gen.pc = "resolved"
    /\ \E i \in 1..Len(jobs) :
        /\ IsSome(jobs[i].asset)
        /\ Val(jobs[i].asset).contentType = Some("image/png")
        /\ Val(jobs[i].asset).data = <<77, 97, 110>>
        /\ Val(gen.result).imageUrls[i] =
              <<"data:", "image/png", ";base64,", "T", "W", "F", "u">>

\* the elements of a sequence
Range(seq) == { seq[k] : k \in 1..Len(seq) }

\* the batch enhancement returned one variant per image, pairwise distinct,
\* none empty and none equal to the original prompt
DistinctVariantsReturned ==
    /\ gen.enhanceCalls = <<BatchSizeOf(options)>>
    /\ Len(gen.enhancedPrompts) = BatchSizeOf(options)
    /\ Cardinality(Range(gen.enhancedPrompts)) = BatchSizeOf(options)
    /\ \A v \in Range(gen.enhancedPrompts) : v /= <<>> /\ v /= options.prompt

\* the only pipeline asked the enhancer itself, and the enhancer answered
\* with a success entry
OwnEnhancementSucceeded ==
    /\ Len(jobs) = 1
    /\ jobs[1].enhanceCalls = <<1>>
    /\ ~jobs[1].enhanceFailed

\* C13 (as stated): in every resolved call, (a) for B > 1, when the batch
\* enhancement returned B pairwise distinct variants that differ from the
\* prompt, enhancedPrompts has length B and contains every variant; (b) for
\* batchSize 1, when the pipeline's own enhancement succeeded with a variant
\* that differs from the prompt, enhancedPrompt is that variant and
\* enhancedPrompts is undefined
C13_AsStated ==
    gen.pc = "resolved" =>
        /\ (BatchSizeOf(options) > 1 /\ DistinctVariantsReturned) =>
            /\ IsSome(Val(gen.result).enhancedPrompts)
            /\ Len(Val(Val(gen.result).enhancedPrompts)) = BatchSizeOf(options)
            /\ Range(Val(Val(gen.result).enhancedPrompts)) = Range(gen.enhancedPrompts)
        /\ (OwnEnhancementSucceeded /\ jobs[1].finalPrompt /= options.prompt) =>
            /\ Val(gen.result).enhancedPrompt = Some(jobs[1].finalPrompt)
            /\ Val(gen.result).enhancedPrompts = None

\* C13: under NODE_ENV=test a batch of MaxBatch images, whose enhancement
\* returned MaxBatch distinct variants, has resolved although a submission
\* was answered without a body, and the variant of that pipeline is missing
\* from the result
C13_VariantMissingInTestEnv ==
    /\ isTestEnv
    /\ gen.pc = "resolved"
    /\ BatchSizeOf(options) = MaxBatch
    /\ DistinctVariantsReturned
    /\ \E i \in 1..Len(jobs) :
        /\ jobs[i].pc = "done"
        /\ jobs[i].handle = None
        /\ jobs[i].finalPrompt = gen.enhancedPrompts[i]
        /\ \/ Val(gen.result).enhancedPrompts = None
           \/ jobs[i].finalPrompt \notin Range(Val(Val(gen.result).enhancedPrompts))

\* the enhanced prompts the pipelines submitted as captions, in dispatch order
EnhancedCaptionsUsed ==
    LET Enhanced(job) == EnhanceOf(options) /\ job.finalPrompt /= options.prompt
        kept == SelectSeq(jobs, Enhanced) IN
    [k \in 1..Len(kept) |-> kept[k].finalPrompt]

\* C14 (as stated): in a resolved call, enhancedPrompts is present exactly
\* when the pipelines used more than one distinct enhanced variant, and it
\* then lists the enhanced prompts used, in dispatch order
C14_PresentIffDistinctVariants ==
    gen.pc = "resolved" =>
        /\ IsSome(Val(gen.result).enhancedPrompts)
              <=> Cardinality(Range(EnhancedCaptionsUsed)) > 1
        /\ IsSome(Val(gen.result).enhancedPrompts) =>
              Val(Val(gen.result).enhancedPrompts) = EnhancedCaptionsUsed

\* C14: the enhancer returned one variant for a batch of two, both pipelines
\* used it, and the result lists it twice
C14_SameVariantListedTwice ==
    /\ gen.pc = "resolved"
    /\ gen.enhancedPrompts = Variants(1)
    /\ Len(jobs) = 2
    /\ Val(gen.result).enhancedPrompts = Some(<<Variant(1), Variant(1)>>)

\* C15 (as stated): in a resolved call, whenever enhancedPrompt is present
\* it is the caption submitted by the pipeline at dispatch index 0
C15_EnhancedPromptOfFirstJob ==
    (gen.pc = "resolved" /\ IsSome(Val(gen.result).enhancedPrompt)) =>
        Val(Val(gen.result).enhancedPrompt) = Val(jobs[1].payload).caption

\* C15: the enhancer returned the original prompt as first variant; the
\* first pipeline submitted it, and the result's enhancedPrompt is the
\* caption of the second pipeline
C15_PromptOfSecondJob ==
    /\ gen.pc = "resolved"
    /\ gen.enhancedPrompts = <<Prompt, Variant(1)>>
    /\ Val(jobs[1].payload).caption = Prompt
    /\ Val(jobs[2].payload).caption = Variant(1)
    /\ Val(gen.result).enhancedPrompt = Some(Variant(1))

\* the dispatch indices of the failed pipelines, in the order they failed
FailedInOrder ==
    LET Failed(i) == jobs[i].pc = "failed" IN SelectSeq(settled, Failed)

\* C16: once a pipeline has failed, generateImage is rejected with the error
\* of the pipeline that failed first in time, as its catch block reports it,
\* however many pipelines have failed since
C16_FirstFailureWins ==
    Len(FailedInOrder) > 0 =>
        /\ gen.pc = "rejected"
        /\ gen.error = Some(CatchGenerateImage(Val(jobs[FailedInOrder[1]].error)))

\* C16: the second pipeline failed before the first, with another error, and
\* the call is rejected with the error of the second
C16_LaterIndexFailedFirst ==
    /\ FailedInOrder = <<2, 1>>
    /\ CatchGenerateImage(Val(jobs[1].error)) /= CatchGenerateImage(Val(jobs[2].error))
    /\ gen.error = Some(CatchGenerateImage(Val(jobs[2].error)))

\* C17: whatever has become of generateImage and of its siblings, a pipeline
\* that has not settled can take its next step; a step of one pipeline
\* changes no other pipeline, and a pipeline ends with a POLLING_ERROR only
\* when its own attempts have reached maxPollingAttempts
C17_SiblingsKeepRunning ==
    /\ [](\A i \in 1..Len(jobs) :
            jobs[i].pc \notin {"done", "failed"} => ENABLED PipelineStep(i))
    /\ [][\A i \in 1..Len(jobs) :
            jobs'[i] /= jobs[i] =>
                /\ jobs[i].pc \notin {"done", "failed"}
                /\ \A k \in 1..Len(jobs) : k /= i => jobs'[k] = jobs[k]
                /\ (jobs'[i].pc = "failed"
                    /\ Val(jobs'[i].error).type = "POLLING_ERROR") =>
                        jobs'[i].attempts = maxPollingAttempts]_vars

\* C17: a pipeline failed and the call was rejected, and afterwards a sibling
\* went on to query its status, fetch its image and complete
C17_SiblingCompletedAfterReject ==
    /\ gen.pc = "rejected"
    /\ Len(settled) = 2
    /\ jobs[settled[1]].pc = "failed"
    /\ jobs[settled[2]].pc = "done"
    /\ IsSome(jobs[settled[2]].imageId)

\* the calls whose failure ends the pipeline
ThrowingCalls == {"project", "submit", "status"}

\* C18 (as stated, for the calls whose failure ends the pipeline): once the
\* submission, a status query or the project discovery made for the
\* submission has been answered with 401 or 403, generateImage has rejected
\* with type AUTHENTICATION_ERROR and that status code
C18_AuthFailureRejects ==
    \A i \in 1..Len(jobs) :
        (IsSome(jobs[i].authSeen) /\ Val(jobs[i].authSeen).call \in ThrowingCalls) =>
            /\ gen.pc = "rejected"
            /\ Val(gen.error).type = "AUTHENTICATION_ERROR"
            /\ Val(gen.error).status = Some(Val(jobs[i].authSeen).status)

\* C18: under NODE_ENV=test a status query was answered with 403 and a
\* response message holding 'timed out'; the poller threw an
\* AUTHENTICATION_ERROR carrying 403 and the caller received a POLLING_ERROR
\* without a status code
C18_ForbiddenRewrittenInTestEnv ==
    /\ isTestEnv
    /\ Len(jobs) = 1
    /\ jobs[1].authSeen = Some([call |-> "status", status |-> Forbidden])
    /\ jobs[1].pc = "failed"
    /\ Val(jobs[1].error).type = "AUTHENTICATION_ERROR"
    /\ Val(jobs[1].error).status = Some(Forbidden)
    /\ gen.pc = "rejected"
    /\ Val(gen.error).type = "POLLING_ERROR"
    /\ Val(gen.error).status = None

\* C19: under NODE_ENV=test, with a budget of MaxAttempts, the second status
\* query timed out after one attempt was used; the poller threw a
\* TIMEOUT_ERROR and the caller received a POLLING_ERROR while attempts
\* remained
C19_TimeoutReportedAsExhaustion ==
    /\ isTestEnv
    /\ maxPollingAttempts = MaxAttempts
    /\ Len(jobs) = 1
    /\ jobs[1].timeoutSeen = Some("status")
    /\ jobs[1].attempts = 1
    /\ jobs[1].queries = 2
    /\ jobs[1].pc = "failed"
    /\ Val(jobs[1].error).type = "TIMEOUT_ERROR"
    /\ gen.pc = "rejected"
    /\ Val(gen.error).type = "POLLING_ERROR"
    /\ Val(gen.error).msg = <<"Generation", "timed out">>

\* C19 (as stated): a timeout of the submission or of a status query makes
\* generateImage reject with type TIMEOUT_ERROR, and a rejection of type
\* POLLING_ERROR comes only after maxPollingAttempts attempts
C19_TimeoutAlwaysTimeoutError ==
    \A i \in 1..Len(jobs) :
        /\ IsSome(jobs[i].timeoutSeen) =>
            /\ gen.pc = "rejected"
            /\ Val(gen.error).type = "TIMEOUT_ERROR"
        /\ (gen.pc = "rejected" /\ Val(gen.error).type = "POLLING_ERROR") =>
            jobs[i].attempts = maxPollingAttempts

\* C20: once the submission has been answered, the job handle is the nested
\* create.node.id if the body has one, otherwise the flat generation_id if
\* the body has one; for every other answer, an empty or an absent body
\* included, the pipeline has failed with type UNEXPECTED_RESPONSE and has
\* sent no status query
C20_JobIdExtraction ==
    \A i \in 1..Len(jobs) :
        IsSome(jobs[i].body) =>
            LET nested == Val(jobs[i].body)[2]
                flat == Val(jobs[i].body)[3] IN
            IF IsSome(nested) THEN jobs[i].handle = nested
            ELSE IF IsSome(flat) THEN jobs[i].handle = flat
            ELSE /\ jobs[i].pc = "failed"
                 /\ Val(jobs[i].error).type = "UNEXPECTED_RESPONSE"
                 /\ jobs[i].queries = 0

\* C20: the submission was answered without a body outside NODE_ENV=test,
\* and generateImage was rejected with type UNKNOWN_ERROR
C20_AbsentBodyUnknownError ==
    /\ ~isTestEnv
    /\ Len(jobs) = 1
    /\ jobs[1].body = Some(<<FALSE, None, None>>)
    /\ jobs[1].pc = "failed"
    /\ jobs[1].queries = 0
    /\ gen.pc = "rejected"
    /\ Val(gen.error).type = "UNKNOWN_ERROR"

\* C21: a status query whose list does not show the job leaves the pipeline
\* without an error, waiting, with the attempt not yet counted; the wait
\* that follows counts one attempt and leads to the next query while the
\* budget lasts; no such listing fails the pipeline, which fails with
\* GENERATION_ERROR only on a listed error; after such listings the asset
\* of a job that a later query showed with an output completes the job
C21_AbsentIsPending ==
    [][\A i \in 1..Len(jobs) :
        jobs'[i] /= jobs[i] =>
            /\ (jobs[i].pc = "poll" /\ jobs'[i].pendings = jobs[i].pendings + 1) =>
                /\ jobs'[i].pc = "delay"
                /\ jobs'[i].error = None
                /\ jobs'[i].attempts = jobs[i].attempts
                /\ jobs'[i].queries = jobs[i].queries + 1
            /\ jobs[i].pc = "delay" =>
                /\ jobs'[i].attempts = jobs[i].attempts + 1
                /\ IF jobs'[i].attempts < maxPollingAttempts
                   THEN jobs'[i].pc = "poll"
                   ELSE /\ jobs'[i].pc = "failed"
                        /\ Val(jobs'[i].error).type = "POLLING_ERROR"
            /\ (jobs[i].pc = "poll" /\ jobs'[i].pc = "failed") =>
                /\ jobs'[i].pendings = jobs[i].pendings
                /\ IsSome(jobs'[i].errorSeen)
            /\ (jobs[i].pc = "fetch" /\ jobs[i].pendings > 0
                /\ IsSome(jobs'[i].asset)) =>
                /\ jobs'[i].pc = "done"
                /\ IsSome(jobs'[i].outcome)
            /\ (jobs'[i].pc = "failed"
                /\ Val(jobs'[i].error).type = "GENERATION_ERROR") =>
                    IsSome(jobs'[i].errorSeen)]_vars

\* C21: the first listings did not show the job, the last query of the
\* budget showed it with an output, and the call resolved
C21_ListedLateSucceeded ==
    /\ maxPollingAttempts = MaxAttempts + 1
    /\ Len(jobs) = 1
    /\ jobs[1].pendings = MaxAttempts
    /\ jobs[1].attempts = MaxAttempts
    /\ jobs[1].queries = MaxAttempts + 1
    /\ jobs[1].pc = "done"
    /\ gen.pc = "resolved"

\* C22: the seed of a completed job is the data.inference_inputs.seed its
\* status entry echoed, whatever integer that is, and the seed of the
\* result is the seed of the job at dispatch index 0
C22_SeedIsEchoedSeed ==
    /\ \A i \in 1..Len(jobs) :
        (jobs[i].pc = "done" /\ IsSome(jobs[i].echoed) /\ IsSome(Val(jobs[i].echoed))) =>
            Val(jobs[i].outcome).seed = Val(Val(jobs[i].echoed))
    /\ gen.pc = "resolved" => Val(gen.result).seed = Val(jobs[1].outcome).seed

\* C22: the status entry echoed the seed 0 and the result reports -1
C22_ZeroEchoReportedAsSentinel ==
    /\ Len(jobs) = 1
    /\ jobs[1].echoed = Some(Some(0))
    /\ jobs[1].pc = "done"
    /\ gen.pc = "resolved"
    /\ Val(gen.result).seed = -1

\* C23: for batchSize = 1 with enhancement enabled, generateImage makes and
\* awaits no enhancement call of its own and hands no variant to the
\* pipeline; the pipeline has called the enhancer once when it submits, the
\* request of that call asks for 1 variant (it is not sent only when the
\* project lookup of the enhancer failed), and the caption submitted is the
\* first variant the enhancer returned
C23_InlineEnhancement ==
    (BatchSizeOf(options) = 1 /\ EnhanceOf(options)) =>
        /\ gen.enhanceCalls = <<>>
        /\ gen.pc \notin {"enhance", "enhanceProject"}
        /\ \A i \in 1..Len(jobs) :
            /\ jobs[i].enhancedArg = None
            /\ jobs[i].enhanceCalls \in {<<>>, <<1>>}
            /\ jobs[i].enhanceCalls = <<1>> <=> IsSome(jobs[i].enhanced)
            /\ IsSome(jobs[i].payload) =>
                /\ jobs[i].enhanceCalls = <<1>> \/ jobs[i].enhanceFailed
                /\ IsSome(jobs[i].enhanced) =>
                    LET returned == EnhanceResult(options.prompt, Val(jobs[i].enhanced)) IN
                    Len(returned) > 0 => Val(jobs[i].payload).caption = returned[1]
                /\ jobs[i].enhanced = None => Val(jobs[i].payload).caption = options.prompt

\* C23: the enhancer answered the request for 1 variant with two, and the
\* pipeline submitted the first of them
C23_FirstOfTwoSubmitted ==
    /\ BatchSizeOf(options) = 1
    /\ Len(jobs) = 1
    /\ gen.enhanceCalls = <<>>
    /\ jobs[1].enhanceCalls = <<1>>
    /\ IsSome(jobs[1].enhanced)
    /\ Val(jobs[1].enhanced).list = <<Success(Variants(2))>>
    /\ IsSome(jobs[1].payload)
    /\ Val(jobs[1].payload).caption = Variant(1)

\* C24: a request whose base seed is -1 is handled as a request without a
\* seed: every pipeline receives the sentinel -1 as its seed and so submits
\* a seed drawn from [0, 10000000)
C24_SentinelMeansUnspecified ==
    options.seed \in {None, Some(-1)} =>
        \A i \in 1..Len(jobs) :
            /\ jobs[i].seedArg = -1
            /\ IsSome(jobs[i].payload) =>
                Val(jobs[i].payload).seed \in 0..(RandomSeedRange - 1)

\* C24: with base seed -1 and the largest jitter the pipeline received 998
\* and submitted it, without drawing a seed
C24_SentinelShiftedByJitter ==
    /\ options.seed = Some(-1)
    /\ \E i \in 1..Len(jobs) :
        /\ jobs[i].seedArg = SeedJitterRange - 2
        /\ IsSome(jobs[i].payload)
        /\ Val(jobs[i].payload).seed = SeedJitterRange - 2

\* C25: in a batch of 2 with a base seed, the seeds of the two submissions
\* differ
C25_BatchSeedsDiffer ==
    (IsSome(options.seed) /\ Len(jobs) = 2
     /\ IsSome(jobs[1].payload) /\ IsSome(jobs[2].payload)) =>
        Val(jobs[1].payload).seed /= Val(jobs[2].payload).seed

\* C25: both pipelines of a batch with base seed 42 drew the jitter 0 and
\* submitted the seed 42
C25_SameJitterSameSeed ==
    /\ options.seed = Some(42)
    /\ Len(jobs) = 2
    /\ jobs[1].seedArg = 42
    /\ jobs[2].seedArg = 42
    /\ IsSome(jobs[1].payload) /\ IsSome(jobs[2].payload)
    /\ Val(jobs[1].payload).seed = 42
    /\ Val(jobs[2].payload).seed = 42

\* C26: in every submission, unexpandedPrompt and instruction are the prompt
\* of the request, optimizeEnabled is the enhancement flag of the request
\* (true when it is omitted), aspectRatio is "width:height" of the width and
\* height submitted, and the caption is the prompt of the request or one of
\* the variants the enhancer returned
C26_PayloadMetadata ==
    \A i \in 1..Len(jobs) :
        IsSome(jobs[i].payload) =>
            LET payload == Val(jobs[i].payload)
                returned == IF IsSome(jobs[i].enhanced)
                            THEN Range(EnhanceResult(options.prompt, Val(jobs[i].enhanced)))
                            ELSE Range(gen.enhancedPrompts) IN
            /\ payload.unexpandedPrompt = options.prompt
            /\ payload.instruction = options.prompt
            /\ payload.optimizeEnabled = (options.enhancePrompt /= Some(FALSE))
            /\ payload.aspectRatio =
                  Decimal(payload.width) \o <<":">> \o Decimal(payload.height)
            /\ payload.caption \in {options.prompt} \cup returned

\* C26: a 512 by 768 request without an enhancement flag was submitted with
\* aspect ratio "512:768", optimizeEnabled true and a variant of the
\* enhancer as caption
C26_DefaultFlagSubmitted ==
    /\ options.enhancePrompt = None
    /\ options.width = Some(512)
    /\ \E i \in 1..Len(jobs) :
        /\ IsSome(jobs[i].payload)
        /\ Val(jobs[i].payload).aspectRatio = <<"5", "1", "2", ":", "7", "6", "8">>
        /\ Val(jobs[i].payload).optimizeEnabled
        /\ Val(jobs[i].payload).caption = Variant(1)
        /\ Val(jobs[i].payload).unexpandedPrompt = Prompt

\* the types of a ReveAIError
ReveAIErrorTypes ==
    {"AUTHENTICATION_ERROR", "API_ERROR", "REQUEST_ERROR", "TIMEOUT_ERROR",
     "GENERATION_ERROR", "POLLING_ERROR", "UNEXPECTED_RESPONSE", "UNKNOWN_ERROR"}

\* C27: a pipeline that has ended has either one outcome, made of the data
\* URI of the asset it fetched and a seed, and no error, or one error, which
\* the caller receives typed, and no outcome; a pipeline that has not ended
\* has neither; and a pipeline that has ended does not change any more
C27_OneOutcomeOrOneError ==
    /\ [](\A i \in 1..Len(jobs) :
            /\ jobs[i].pc = "done" =>
                /\ IsSome(jobs[i].outcome)
                /\ jobs[i].error = None
                /\ IsSome(jobs[i].asset)
                /\ Val(jobs[i].outcome).imageUrl[1] = "data:"
                /\ Val(jobs[i].outcome).seed \in Int
            /\ jobs[i].pc = "failed" =>
                /\ IsSome(jobs[i].error)
                /\ jobs[i].outcome = None
                /\ gen.pc = "rejected"
                /\ Val(gen.error).cls = "ReveAIError"
                /\ Val(gen.error).type \in ReveAIErrorTypes
            /\ jobs[i].pc \notin {"done", "failed"} =>
                /\ jobs[i].outcome = None
                /\ jobs[i].error = None)
    /\ [][\A i \in 1..Len(jobs) :
            jobs[i].pc \in {"done", "failed"} => jobs'[i] = jobs[i]]_vars

\* C27: under NODE_ENV=test a submission was answered without a body and the
\* pipeline ended with an outcome for which no status was queried and no
\* image was fetched
C27_OutcomeWithoutImage ==
    /\ isTestEnv
    /\ \E i \in 1..Len(jobs) :
        /\ jobs[i].body = Some(<<FALSE, None, None>>)
        /\ jobs[i].pc = "done"
        /\ jobs[i].queries = 0
        /\ jobs[i].asset = None
        /\ Val(jobs[i].outcome).imageUrl = <<"https://example.com/test-image.jpg">>
    /\ gen.pc = "resolved"

\* C28: once a call of a pipeline has been answered with 401 or 403 the
\* cached token is absent, and an absent token is never set again
C28_TokenInvalidated ==
    /\ []((\E i \in 1..Len(jobs) : IsSome(jobs[i].authSeen)) => token = None)
    /\ [][token = None => token' = None]_vars

\* C28: a call was answered with 403 and the token is still cached
C28_TokenKeptAfterForbidden ==
    /\ token = Some("token")
    /\ \E i \in 1..Len(jobs) :
        /\ IsSome(jobs[i].authSeen)
        /\ Val(jobs[i].authSeen).status = Forbidden

\* the last entry of the response list of an enhancement answer
LastSnapshot(resp) == resp.list[Len(resp.list)]

\* C29: when the enhancement endpoint answers with a list of snapshots, the
\* enhancer returns the expanded_prompts of the last entry if that entry is
\* a success carrying them, and the original prompt alone if the last entry
\* is not a success, whatever the earlier entries are
C29_LastEntryOnly ==
    (IsSome(vOut) /\ Val(vIn).ok /\ Val(vIn).isArray /\ Len(Val(vIn).list) > 0) =>
        LET last == LastSnapshot(Val(vIn)) IN
        /\ (last.status = "success" /\ IsSome(last.prompts)) =>
                Val(vOut) = Val(last.prompts)
        /\ last.status /= "success" => Val(vOut) = <<Prompt>>

\* C29: a success was followed by a running snapshot, and the enhancer
\* returned the original prompt
C29_EarlierSuccessIgnored ==
    /\ IsSome(vIn)
    /\ Val(vIn).list = <<Success(Variants(2)), Running>>
    /\ vOut = Some(<<Prompt>>)

\* C30: enhancePrompt never returns an empty sequence, and a last entry
\* that is a success with an empty expanded_prompts list yields the original
\* prompt alone
C30_NeverEmpty ==
    IsSome(vOut) =>
        /\ Len(Val(vOut)) > 0
        /\ (Val(vIn).ok /\ Val(vIn).isArray /\ Len(Val(vIn).list) > 0
            /\ LastSnapshot(Val(vIn)) = Success(<<>>)) => Val(vOut) = <<Prompt>>

\* C30: the endpoint answered with a success whose expanded_prompts is empty
\* and enhancePrompt returned the empty sequence
C30_EmptyListReturned ==
    /\ IsSome(vIn)
    /\ Val(vIn).list = <<Success(<<>>)>>
    /\ vOut = Some(<<>>)

\* C31: when the request gives a base seed S, the seed of every submission
\* is S + j for a jitter j with 0 <= j < 1000
C31_SeedIsBasePlusJitter ==
    IsSome(options.seed) =>
        \A i \in 1..Len(jobs) :
            IsSome(jobs[i].payload) =>
                Val(jobs[i].payload).seed - Val(options.seed) \in 0..(SeedJitterRange - 1)

\* C31: the base seed -1000 and the jitter 999 gave the per-job seed -1, and
\* the submission carries the drawn seed 0, which is 1000 above the base
C31_DrawnInsteadOfDerived ==
    /\ options.seed = Some(-1000)
    /\ \E i \in 1..Len(jobs) :
        /\ jobs[i].seedArg = -1
        /\ IsSome(jobs[i].payload)
        /\ Val(jobs[i].payload).seed = 0

\* C32: once a status listing has shown the job's entry with an error field,
\* whatever else the entry carries, the pipeline has ended with a
\* GENERATION_ERROR; it is not fetching an asset, waiting or querying
C32_ErrorFieldTerminates ==
    \A i \in 1..Len(jobs) :
        IsSome(jobs[i].errorSeen) =>
            /\ jobs[i].pc \notin {"fetch", "delay", "poll", "done"}
            /\ jobs[i].pc = "failed"
            /\ Val(jobs[i].error).type = "GENERATION_ERROR"

\* C32: the first status listing showed the entry with an output and an
\* error, and the pipeline is about to fetch the asset
C32_FetchingDespiteError ==
    \E i \in 1..Len(jobs) :
        /\ jobs[i].errorSeen = Some(<<"boom">>)
        /\ jobs[i].queries = 1
        /\ jobs[i].pc = "fetch"
        /\ IsSome(jobs[i].imageId)
        /\ jobs[i].error = None

\* the last failure the histories of a pipeline hold is the rejection of a
\* status query by the transport
StatusQueryRejected(job) ==
    \/ job.timeoutSeen = Some("status")
    \/ IsSome(job.authSeen) /\ Val(job.authSeen).call = "status"

\* C33: once a status query has been rejected by the transport, the
\* pipeline has failed with the normalized error, a ReveAIError of type
\* TIMEOUT_ERROR or AUTHENTICATION_ERROR, without waiting and without using
\* up an attempt, and generateImage has rejected; a rejected asset fetch
\* used up an attempt and did not fail the pipeline with its own error
C33_StatusFailureTerminal ==
    \A i \in 1..Len(jobs) :
        /\ StatusQueryRejected(jobs[i]) =>
            /\ jobs[i].pc = "failed"
            /\ Val(jobs[i].error).cls = "ReveAIError"
            /\ Val(jobs[i].error).type =
                  IF jobs[i].timeoutSeen = Some("status") THEN "TIMEOUT_ERROR"
                  ELSE "AUTHENTICATION_ERROR"
            /\ jobs[i].attempts < maxPollingAttempts
            /\ jobs[i].delays = jobs[i].attempts
            /\ gen.pc = "rejected"
        /\ (IsSome(jobs[i].authSeen) /\ Val(jobs[i].authSeen).call = "fetch"
            /\ ~StatusQueryRejected(jobs[i]) /\ jobs[i].pc = "failed") =>
                /\ Val(jobs[i].error).type \notin
                      {"AUTHENTICATION_ERROR", "TIMEOUT_ERROR"}
                /\ jobs[i].fetches <= jobs[i].attempts

\* C33: the second status query of a budget of MaxAttempts was rejected with
\* 403 and the pipeline failed with one attempt used
C33_SecondQueryRejected ==
    /\ maxPollingAttempts = MaxAttempts
    /\ Len(jobs) = 1
    /\ jobs[1].authSeen = Some([call |-> "status", status |-> Forbidden])
    /\ jobs[1].queries = 2
    /\ jobs[1].attempts = 1
    /\ jobs[1].pc = "failed"
    /\ Val(jobs[1].error).type = "AUTHENTICATION_ERROR"

\* what the counters of a pipeline say about the iterations of its loop
LoopCounters(job) ==
    /\ job.delays = job.attempts
    /\ job.pc = "poll" => job.queries = job.attempts
    /\ job.pc \in {"fetch", "delay"} => job.queries = job.attempts + 1
    /\ job.queries \in {job.attempts, job.attempts + 1}
    /\ job.fetches <= job.queries
    /\ job.queries <= maxPollingAttempts
    /\ job.fetches <= maxPollingAttempts
    /\ job.delays <= maxPollingAttempts

\* C34: every pipeline ends, each iteration of its loop that does not end
\* it adds exactly one to the attempt counter, and a pipeline issues at
\* most maxPollingAttempts status queries, asset fetches and delays
C34_PollingTerminates ==
    /\ [](\A i \in 1..Len(jobs) : LoopCounters(jobs[i]))
    /\ [][\A i \in 1..Len(jobs) :
            (i <= Len(jobs') /\ jobs[i].pc = "delay") =>
                jobs'[i].attempts = jobs[i].attempts + 1]_vars
    /\ (Len(jobs) > 0) ~> (\A i \in 1..Len(jobs) : jobs[i].pc \in {"done", "failed"})

\* C34: a pipeline used its whole budget of queries and fetches and ended
\* with the asset of the last fetch
C34_WholeBudgetUsed ==
    /\ maxPollingAttempts = MaxAttempts + 1
    /\ Len(jobs) = 1
    /\ jobs[1].pc = "done"
    /\ jobs[1].queries = maxPollingAttempts
    /\ jobs[1].fetches = maxPollingAttempts
    /\ jobs[1].delays = maxPollingAttempts - 1

(***************************************************************************)
(* handleAxiosError on its own                                             *)
(***************************************************************************)
\* the messages of the errors handed to the conversion
ErrorMessages ==
    { <<"Bad Request">>, <<"timeout", "of 30000ms exceeded">>, <<"Network Error">> }

\* the errors handed to the conversion: errors of the transport with and
\* without a response, plain errors and errors that are typed already
NormalizeErrors ==
    { AxiosError(m, st, c, r) :
        m \in ErrorMessages,
        st \in {None, Some(0), Some(ApiErrorFloor - 1), Some(ApiErrorFloor),
                Some(Unauthorized), Some(Forbidden), Some(NotFound)},
        c \in {"ERR_BAD_REQUEST", "ECONNABORTED"},
        r \in {None, Some(<<"Invalid prompt">>)} }
    \cup { PlainError(m) : m \in ErrorMessages }
    \cup { ReveAIError(<<"Original error">>, t, st) :
             t \in ReveAIErrorTypes, st \in {None, Some(ApiErrorFloor)} }

InitNormalize ==
    /\ isTestEnv = FALSE
    /\ maxPollingAttempts = 0
    /\ projectId = Some("project")
    /\ token = None
    /\ options = None
    /\ InitCall
    /\ vIn \in { Some([error |-> e, operation |-> "generating image", verbose |-> v]) :
                    e \in NormalizeErrors, v \in BOOLEAN }
    /\ vOut = None

\* handleAxiosError(error, operation, verbose) returns
HandleAxiosError ==
    /\ IsSome(vIn)
    /\ vOut = None
    /\ vOut' = Some(handleAxiosError(Val(vIn).error, Val(vIn).operation, Val(vIn).verbose))
    /\ UNCHANGED <<isTestEnv, maxPollingAttempts, projectId, token, options, gen,
                   jobs, settled, net, vIn>>

NextNormalize == HandleAxiosError

SpecNormalize == InitNormalize /\ [][NextNormalize]_vars

\* C35: the conversion maps every error of the transport whose response has
\* a status of 400 or above other than 401 and 403 to API_ERROR with that
\* status, and every error that is neither of the transport nor typed to
\* UNKNOWN_ERROR
C35_StatusMeansApiError ==
    IsSome(vOut) =>
        LET error == Val(vIn).error IN
        /\ (error.cls = "AxiosError" /\ IsSome(error.status)
            /\ Val(error.status) >= ApiErrorFloor
            /\ Val(error.status) \notin {Unauthorized, Forbidden}) =>
                /\ Val(vOut).type = "API_ERROR"
                /\ Val(vOut).status = error.status
        /\ error.cls = "Error" => Val(vOut).type = "UNKNOWN_ERROR"

\* C35: a response with status 404 on a request whose error code is
\* ECONNABORTED was converted to TIMEOUT_ERROR without a status
C35_StatusLostToTimeout ==
    /\ IsSome(vOut)
    /\ Val(vIn).error = AxiosError(<<"Bad Request">>, Some(NotFound), "ECONNABORTED", None)
    /\ Val(vOut).type = "TIMEOUT_ERROR"
    /\ Val(vOut).status = None

\* the types of the errors that a pipeline raises typed
TypedInPipeline == {"GENERATION_ERROR", "POLLING_ERROR", "UNEXPECTED_RESPONSE"}

\* C36 (as stated): the error of a pipeline that was raised typed is
\* returned unchanged by the conversion and by the catch of the poller, and
\* generateImage rejects with an error of the same type, which outside the
\* test environment is the very same error
C36_TypedErrorKeepsType ==
    (Len(jobs) = 1 /\ gen.pc = "rejected" /\ jobs[1].pc = "failed"
     /\ Val(jobs[1].error).cls = "ReveAIError"
     /\ Val(jobs[1].error).type \in TypedInPipeline) =>
        LET error == Val(jobs[1].error) IN
        /\ handleAxiosError(error, "generating image", Verbose) = error
        /\ handleAxiosError(handleAxiosError(error, "generating image", Verbose),
                            "generating image", Verbose) = error
        /\ PollCatch(error) = error
        /\ Val(gen.error).cls = "ReveAIError"
        /\ Val(gen.error).type = error.type
        /\ ~isTestEnv => gen.error = jobs[1].error

\* C36: in the test environment a pipeline raised UNEXPECTED_RESPONSE for a
\* body without an id, and generateImage rejected with GENERATION_ERROR
C36_TypeRewrittenInTestEnv ==
    /\ isTestEnv
    /\ Len(jobs) = 1
    /\ jobs[1].pc = "failed"
    /\ jobs[1].queries = 0
    /\ Val(jobs[1].error).type = "UNEXPECTED_RESPONSE"
    /\ Includes(Val(jobs[1].error).msg, <<"Generation failed">>)
    /\ handleAxiosError(Val(jobs[1].error), "generating image", Verbose) = Val(jobs[1].error)
    /\ gen.pc = "rejected"
    /\ Val(gen.error).type = "GENERATION_ERROR"

\* C37: a pipeline queries the status only after its submission; it enters
\* the asset fetch only from a status query that listed an output, requests
\* the image id of that listing, the latest one, in the same iteration, and
\* leaves the fetch for the end of the pipeline or for the delay that
\* precedes the next query
C37_StepsOrdered ==
    /\ [](\A i \in 1..Len(jobs) :
            /\ jobs[i].queries > 0 =>
                /\ jobs[i].submissions = 1
                /\ IsSome(jobs[i].payload)
                /\ IsSome(jobs[i].handle)
            /\ IsSome(jobs[i].requested) =>
                /\ jobs[i].queries > 0
                /\ IsSome(jobs[i].listed))
    /\ [][\A i \in 1..Len(jobs) :
            i <= Len(jobs') =>
                /\ (jobs'[i].pc = "fetch" /\ jobs[i].pc /= "fetch") =>
                    /\ jobs[i].pc = "poll"
                    /\ jobs'[i].queries = jobs[i].queries + 1
                    /\ IsSome(jobs'[i].listed)
                /\ (jobs[i].pc = "fetch" /\ jobs'[i].pc /= "fetch") =>
                    /\ jobs[i].queries = jobs[i].attempts + 1
                    /\ jobs'[i].requested = jobs[i].listed
                    /\ jobs'[i].queries = jobs[i].queries
                    /\ jobs'[i].pc \in {"done", "delay"}]_vars

\* C37: the asset of the first listing was requested and missing, the second
\* query listed another image id and the pipeline is about to request it
C37_RequeriedAfterFailedFetch ==
    /\ Len(jobs) >= 1
    /\ jobs[1].pc = "fetch"
    /\ jobs[1].queries = 2
    /\ jobs[1].attempts = 1
    /\ jobs[1].requested = Some("image-id")
    /\ jobs[1].listed = Some("image-id-2")

\* C38: a call creates one pipeline per dispatch index, at most batchSize of
\* them; each pipeline submits at most once, has submitted once when it
\* polls, fetches or waits, and submits only from the step that follows
\* the project id, never again after a query, a fetch, a delay or the
\* failure of a sibling
C38_SubmittedOnce ==
    /\ [](/\ Len(jobs) <= BatchSizeOf(options)
          /\ \A i \in 1..Len(jobs) :
                /\ jobs[i].submissions <= 1
                /\ jobs[i].pc \in {"poll", "fetch", "delay"} => jobs[i].submissions = 1
                /\ jobs[i].pc \in {"project", "submit"} => jobs[i].submissions = 0
                /\ IsSome(jobs[i].payload) <=> jobs[i].submissions = 1)
    /\ [][\A i \in 1..Len(jobs) :
            i <= Len(jobs') =>
                /\ jobs'[i].submissions >= jobs[i].submissions
                /\ jobs'[i].submissions /= jobs[i].submissions =>
                    /\ jobs[i].pc = "submit"
                    /\ jobs[i].queries = 0
                /\ jobs[i].submissions = 1 => jobs'[i].payload = jobs[i].payload]_vars

\* C38: in a batch the first pipeline failed while the second one retried
\* after a wait and completed, each with one submission
C38_RetriedWithoutResubmission ==
    /\ Len(jobs) >= 2
    /\ jobs[1].pc = "failed"
    /\ jobs[1].submissions = 1
    /\ gen.pc = "rejected"
    /\ jobs[2].pc = "done"
    /\ jobs[2].attempts >= 1
    /\ jobs[2].submissions = 1

\* C39: a pipeline that has completed reports an enhanced prompt exactly
\* when the enhancement is enabled and the caption it submitted differs from
\* the prompt, and it reports that caption; a call whose pipelines all
\* submitted the prompt itself resolves without enhancedPrompt and without
\* enhancedPrompts
C39_ReportsIffCaptionDiffers ==
    /\ \A i \in 1..Len(jobs) :
        jobs[i].pc = "done" =>
            /\ IsSome(Val(jobs[i].outcome).enhancedPrompt)
                  <=> (EnhanceOf(options)
                       /\ Val(jobs[i].payload).caption /= options.prompt)
            /\ IsSome(Val(jobs[i].outcome).enhancedPrompt) =>
                  Val(jobs[i].outcome).enhancedPrompt = Some(Val(jobs[i].payload).caption)
    /\ (gen.pc = "resolved"
        /\ \A i \in 1..Len(jobs) : Val(jobs[i].payload).caption = options.prompt) =>
            /\ Val(gen.result).keys = {}
            /\ Val(gen.result).enhancedPrompt = None
            /\ Val(gen.result).enhancedPrompts = None

\* C39: in the test environment a pipeline submitted an enhanced caption,
\* the submission was answered without a body, and the call resolved
\* without an enhanced prompt
C39_EnhancedCaptionNotReported ==
    /\ isTestEnv
    /\ EnhanceOf(options)
    /\ gen.pc = "resolved"
    /\ Len(jobs) = 1
    /\ jobs[1].pc = "done"
    /\ jobs[1].handle = None
    /\ Val(jobs[1].payload).caption /= options.prompt
    /\ Val(jobs[1].payload).optimizeEnabled
    /\ Val(jobs[1].outcome).enhancedPrompt = None
    /\ Val(gen.result).keys = {}

\* the image a pipeline that has completed returns, by the answers it got:
\* the data URI of its asset, or the placeholder of the test environment
\* when its submission was answered without a body
ImageOfAnswers(job) ==
    IF IsSome(job.asset) THEN DataUrl(Val(job.asset))
    ELSE <<"https://example.com/test-image.jpg">>

\* the captions that differ from the prompt among the pipelines that fetched
\* their asset, in dispatch order
ChangedCaptions ==
    LET Changed(job) ==
            /\ EnhanceOf(options)
            /\ IsSome(job.asset)
            /\ Val(job.payload).caption /= options.prompt
        kept == SelectSeq(jobs, Changed) IN
    [k \in 1..Len(kept) |-> Val(kept[k].payload).caption]

\* C40: the result of a call that resolved is determined by the request and
\* by what each pipeline submitted and was answered, taken by dispatch
\* index, whatever the order in which the pipelines completed: imageUrls,
\* seed, prompt, enhancedPrompt, enhancedPrompts and negativePrompt
C40_ResultOfPerJobAnswers ==
    gen.pc = "resolved" =>
        LET result == Val(gen.result) IN
        /\ Len(result.imageUrls) = Len(jobs)
        /\ \A i \in 1..Len(jobs) : result.imageUrls[i] = ImageOfAnswers(jobs[i])
        /\ result.seed = IF IsSome(jobs[1].asset) THEN jobs[1].seed ELSE -1
        /\ result.prompt = options.prompt
        /\ result.negativePrompt = IF TruthyStr(options.negativePrompt)
                                   THEN options.negativePrompt ELSE None
        /\ result.enhancedPrompt = IF Len(ChangedCaptions) > 0
                                   THEN Some(ChangedCaptions[1]) ELSE None
        /\ result.enhancedPrompts = IF Len(ChangedCaptions) > 1
                                    THEN Some(ChangedCaptions) ELSE None

\* C40: a batch with enhanced captions resolved although its second
\* pipeline completed before the first, with another seed and another image
C40_ResolvedInReverseOrder ==
    /\ gen.pc = "resolved"
    /\ Len(jobs) = 2
    /\ settled = <<2, 1>>
    /\ Len(ChangedCaptions) = 2
    /\ jobs[1].seed /= jobs[2].seed
    /\ ImageOfAnswers(jobs[1]) /= ImageOfAnswers(jobs[2])
    /\ Val(gen.result).seed = jobs[1].seed
    /\ Val(gen.result).enhancedPrompt = Some(Val(jobs[1].payload).caption)

====
